---------------------------- MODULE Spec2Model ----------------------------
(***************************************************************************)
(* A model of nativepg: the request builder's tag vector, the scan that    *)
(* allocates a result-set handler's region (detail::resultset_setup), the  *)
(* response router (response<Handlers...>) and the result-set handler      *)
(* (resultset_callback_t).                                                 *)
(*                                                                         *)
(* Indices are the C++ ones (0-based); a TLA+ sequence s holds the C++     *)
(* element i at s[i + 1].                                                  *)
(***************************************************************************)
EXTENDS Integers, Sequences, FiniteSets, TLC

VARIABLES
    types_,        \* request::types_, the tag vector
    buffer_,       \* request::buffer_, as the sequence of serialized frames
    autosync_,     \* request::autosync_
    calls,         \* history: the builder calls made on the request, in order
    pc,            \* where the run is: "building", "constructed", "routing", "done", ...
    rs_arg,        \* the offset passed to the last direct call of resultset_setup
    rs_res,        \* what that call returned
    handlers,      \* response::handlers_ (and vtable_, which refers to them in order)
    offsets_,      \* response::offsets_
    current_,      \* response::current_
    setup_arg,     \* the offset passed to response::setup
    setup_res,     \* what response::setup returned
    setup_calls,   \* history: the handlers' setup calls, <<index, offset passed>>
    last_offset,   \* the offset of the last response::on_message call
    delivered,     \* history: the messages response::on_message was called with
    exec_result,   \* exec_op: the error the FSM finished with and the completion value
    asserts_off,   \* a BOOST_ASSERT failed and the run went on: the build disables them
    args,          \* a call of a free function on its own: the function and its arguments
    ret,           \* what that call returned
    impl,          \* connection::impl_: the connection_impl all operations refer to
    ops            \* the operations started on the connection: connect_op, exec_op

request_vars == <<types_, buffer_, autosync_, calls>>
scan_vars == <<rs_arg, rs_res>>
call_vars == <<args, ret>>
response_vars == <<handlers, offsets_, current_, setup_arg, setup_res, setup_calls,
                   last_offset, delivered, exec_result, asserts_off>>
connection_vars == <<impl, ops>>
vars == <<types_, buffer_, autosync_, calls, pc, rs_arg, rs_res, handlers, offsets_, current_,
          setup_arg, setup_res, setup_calls, last_offset, delivered, exec_result, asserts_off,
          args, ret, impl, ops>>

------------------------------------------------------------------------------
(* Bounds of the model *)

\* the longest tag vector built from raw add(msg) calls
MaxRawTags == 4

\* the longest tag vector built by the add_* helpers before a response is set up
MaxBuildTags == 7

\* the most handlers of a response that is only set up
MaxSetupHandlers == 3

\* the longest tag vector of a request whose response is routed
MaxTags == 3

\* the most member-function calls on a request that is only built
MaxCalls == 2

\* the longest tag vector of a request that is only built
MaxRequestTags == 6

\* the most columns of a row description given to compute_pos_map
MaxColumns == 3

\* the most declared names of a name table given to compute_pos_map
MaxNames == 2

\* the most messages delivered to the single result-set handler
MaxHandlerMsgs == 4

\* the most handlers of a response that is routed
MaxHandlers == 3

\* the most on_message calls of a run
MaxMsgs == 2

------------------------------------------------------------------------------
(* request.hpp *)

\* enum class request_message_type
request_message_type ==
    {"bind", "close", "describe", "execute", "flush", "parse", "query", "sync"}

\* boost::system::error_code{}: no error
no_error == "success"

\* handler_setup_result(std::size_t offset): ec is empty
setup_ok(offset) == [ec |-> no_error, offset |-> offset]

\* handler_setup_result(error_code ec): offset{} stays 0
setup_error(ec) == [ec |-> ec, offset |-> 0]

\* the message_type byte of each message: parse_t::message_type is 'P'
message_type(type) ==
    CASE type = "bind" -> "B" [] type = "close" -> "C" [] type = "describe" -> "D"
      [] type = "execute" -> "E" [] type = "flush" -> "H" [] type = "parse" -> "P"
      [] type = "query" -> "Q" [] type = "sync" -> "S"

\* protocol::serialize(value, to): one frame appended to `to`, or an error and
\* `to` as it was. fails: this value does not serialize.
serialize(type, to, fails) ==
    IF fails THEN [ec |-> "serialization_error", to |-> to]
    ELSE [ec |-> no_error, to |-> Append(to, [message_type |-> message_type(type)])]

\* a request's buffer_ and types_; threw: check() threw system_error and the
\* exception is leaving the member function
request_value(buffer, types, threw) ==
    [buffer_ |-> buffer, types_ |-> types, threw |-> threw]

\* add_advanced_impl with types_.push_back(type) before the serialization
add_advanced_impl_tag_first(req, type, fails) ==
    IF req.threw THEN req
    ELSE request_value(serialize(type, req.buffer_, fails).to, Append(req.types_, type),
                       serialize(type, req.buffer_, fails).ec # no_error)

\* request::add_advanced_impl(value, type), on the request value req of a
\* member function in progress: nothing more happens once an exception is
\* leaving it
add_advanced_impl(req, type, fails) ==
    IF req.threw THEN req
    ELSE IF serialize(type, req.buffer_, fails).ec # no_error
    THEN request_value(serialize(type, req.buffer_, fails).to, req.types_, TRUE)
    ELSE request_value(serialize(type, req.buffer_, fails).to, Append(req.types_, type),
                       FALSE)

------------------------------------------------------------------------------
(* response.cpp: detail::resultset_setup *)

\* what a read of *it can give when it == msgs.end(): the value of the query
\* tag, any other value (the read is only compared with query), or a fault
OobReads == {"query", "other", "fault"}

\* while (it != msgs.end() && (*it == sync || *it == flush)) ++it;
RECURSIVE skip_sync_flush(_, _)
skip_sync_flush(types, it) ==
    IF it < Len(types) /\ types[it + 1] \in {"sync", "flush"}
    THEN skip_sync_flush(types, it + 1)
    ELSE it

\* scan_extended with a Describe accepted whether or not one was found before
RECURSIVE scan_extended_describe_again(_, _, _, _)
scan_extended_describe_again(types, it, describe_found, execute_found) ==
    IF ~(it < Len(types) /\ ~execute_found)
    THEN [it |-> it, execute_found |-> execute_found, failed |-> FALSE]
    ELSE LET tag == types[it + 1] IN
         CASE tag \in {"sync", "flush", "parse", "bind"} ->
                scan_extended_describe_again(types, it + 1, describe_found, execute_found)
           [] tag = "describe" ->
                scan_extended_describe_again(types, it + 1, TRUE, execute_found)
           [] tag = "execute" ->
                IF ~describe_found \/ execute_found
                THEN [it |-> it, execute_found |-> execute_found, failed |-> TRUE]
                ELSE scan_extended_describe_again(types, it + 1, describe_found, TRUE)
           [] OTHER ->
                [it |-> it, execute_found |-> execute_found, failed |-> TRUE]

\* the for loop over the extended-query sequence; failed is the early
\* return of incompatible_response_type
RECURSIVE scan_extended(_, _, _, _)
scan_extended(types, it, describe_found, execute_found) ==
    IF ~(it < Len(types) /\ ~execute_found)
    THEN [it |-> it, execute_found |-> execute_found, failed |-> FALSE]
    ELSE LET tag == types[it + 1] IN
         CASE tag \in {"sync", "flush", "parse", "bind"} ->
                scan_extended(types, it + 1, describe_found, execute_found)
           [] tag = "describe" ->
                IF describe_found
                THEN [it |-> it, execute_found |-> execute_found, failed |-> TRUE]
                ELSE scan_extended(types, it + 1, TRUE, execute_found)
           [] tag = "execute" ->
                IF ~describe_found \/ execute_found
                THEN [it |-> it, execute_found |-> execute_found, failed |-> TRUE]
                ELSE scan_extended(types, it + 1, describe_found, TRUE)
           [] OTHER ->
                [it |-> it, execute_found |-> execute_found, failed |-> TRUE]

\* resultset_setup with the trailing-Sync/Flush skip applied after a leading
\* Query as well
resultset_setup_query_trailing(types, offset, oob) ==
    LET it1 == skip_sync_flush(types, offset)
        past_end == ~(it1 < Len(types))
        first == IF past_end THEN oob ELSE types[it1 + 1]
        scan == scan_extended(types, it1, FALSE, FALSE)
        it2 == skip_sync_flush(types, scan.it)
        res == IF first = "query" THEN setup_ok(skip_sync_flush(types, it1 + 1))
               ELSE IF scan.failed THEN setup_error("incompatible_response_type")
               ELSE IF scan.execute_found THEN setup_ok(it2)
               ELSE setup_error("incompatible_response_type")
    IN  [ec |-> res.ec, offset |-> res.offset, oob_read |-> past_end]

\* resultset_setup without the skip of the Sync/Flush tags that follow the
\* Execute
resultset_setup_keep_trailing(types, offset, oob) ==
    LET it1 == skip_sync_flush(types, offset)
        past_end == ~(it1 < Len(types))
        first == IF past_end THEN oob ELSE types[it1 + 1]
        scan == scan_extended(types, it1, FALSE, FALSE)
        res == IF first = "query" THEN setup_ok(it1 + 1)
               ELSE IF scan.failed THEN setup_error("incompatible_response_type")
               ELSE IF scan.execute_found THEN setup_ok(scan.it)
               ELSE setup_error("incompatible_response_type")
    IN  [ec |-> res.ec, offset |-> res.offset, oob_read |-> past_end]

\* resultset_setup returning it - msgs.begin(), an offset counted from the
\* start offset, in place of it - req.messages().begin()
resultset_setup_relative(types, offset, oob) ==
    LET it1 == skip_sync_flush(types, offset)
        past_end == ~(it1 < Len(types))
        first == IF past_end THEN oob ELSE types[it1 + 1]
        scan == scan_extended(types, it1, FALSE, FALSE)
        it2 == skip_sync_flush(types, scan.it)
        res == IF first = "query" THEN setup_ok(it1 + 1 - offset)
               ELSE IF scan.failed THEN setup_error("incompatible_response_type")
               ELSE IF scan.execute_found THEN setup_ok(it2 - offset)
               ELSE setup_error("incompatible_response_type")
    IN  [ec |-> res.ec, offset |-> res.offset, oob_read |-> past_end]

\* detail::resultset_setup(req, offset). oob is what the read of *it gives
\* when it == msgs.end() at the test for a leading query; oob_read records
\* that this read happened.
resultset_setup(types, offset, oob) ==
    LET it1 == skip_sync_flush(types, offset)
        past_end == ~(it1 < Len(types))
        first == IF past_end THEN oob ELSE types[it1 + 1]
        scan == scan_extended(types, it1, FALSE, FALSE)
        it2 == skip_sync_flush(types, scan.it)
        res == IF first = "query" THEN setup_ok(it1 + 1)
               ELSE IF scan.failed THEN setup_error("incompatible_response_type")
               ELSE IF scan.execute_found THEN setup_ok(it2)
               ELSE setup_error("incompatible_response_type")
    IN  [ec |-> res.ec, offset |-> res.offset, oob_read |-> past_end]

------------------------------------------------------------------------------
(* field_traits.hpp, response.cpp: the field codecs of the integer targets *)

int2_oid == 21
int4_oid == 23
int8_oid == 20

\* protocol::field_description: the members the handler and the codecs read
field_description(name, type_oid, fmt_code) ==
    [name |-> name, type_oid |-> type_oid, fmt_code |-> fmt_code]

\* protocol::field_description{}
empty_descr == field_description("", 0, "text")

\* std::optional<std::span<const unsigned char>>: a column of a DataRow
null_column == [has_value |-> FALSE, data |-> <<>>]
column(bytes) == [has_value |-> TRUE, data |-> bytes]

\* sizeof(T) of an integer target
SizeOf(T) == CASE T = "int16" -> 2 [] T = "int32" -> 4 [] T = "int64" -> 8

\* std::numeric_limits<T>::min() and max()
MinOf(T) == CASE T = "int16" -> -32768 [] T = "int32" -> -2147483647 - 1
MaxOf(T) == CASE T = "int16" -> 32767 [] T = "int32" -> 2147483647

IsDigit(b) == b \in 48..57

\* the number of leading digits of the bytes from index i (0-based) on
RECURSIVE DigitRun(_, _)
DigitRun(from, i) ==
    IF i < Len(from) /\ IsDigit(from[i + 1]) THEN 1 + DigitRun(from, i + 1) ELSE 0

\* the decimal value of the n digits from index i on
RECURSIVE DigitsValue(_, _, _)
DigitsValue(from, i, n) ==
    IF n = 0 THEN 0
    ELSE 10 * DigitsValue(from, i, n - 1) + (from[i + n] - 48)

\* one digit d more onto the negated value v; 1 stands for a value below the
\* smallest 32-bit integer
negated_step(v, d) ==
    IF v = 1 \/ v < -214748364 \/ (v = -214748364 /\ d > 8) THEN 1 ELSE 10 * v - d

\* the negated decimal value of the n digits from index i on, or 1 when the
\* digits go beyond the 32-bit integers
RECURSIVE NegatedValue(_, _, _)
NegatedValue(from, i, n) ==
    IF n = 0 THEN 0 ELSE negated_step(NegatedValue(from, i, n - 1), from[i + n] - 48)

\* std::from_chars(first, last, value) for a signed integer type: an optional
\* '-', then decimal digits. Gives the errc and where the parse stopped; value
\* is written only on success. The digits are all consumed when the value is
\* out of range. The texts read into a std::int64_t are within 32 bits.
from_chars(from, T, to) ==
    LET neg == Len(from) > 0 /\ from[1] = 45
        start == IF neg THEN 1 ELSE 0
        n == DigitRun(from, start)
        negated == NegatedValue(from, start, n)
        beyond == negated = 1 \/ (~neg /\ negated = MinOf("int32"))
        val == IF neg THEN negated ELSE -negated
    IN  IF n = 0 THEN [ec |-> "invalid_argument", ptr |-> 0, value |-> to]
        ELSE IF beyond \/ (T # "int64" /\ (val < MinOf(T) \/ val > MaxOf(T)))
             THEN [ec |-> "result_out_of_range", ptr |-> start + n, value |-> to]
        ELSE [ec |-> no_error, ptr |-> start + n, value |-> val]

\* parse_text_int<T>: ec and the value of `to` after the call
parse_text_int(from, T, to) ==
    LET err == from_chars(from, T, to) IN
    IF err.ec # no_error THEN [ec |-> err.ec, to |-> err.value]
    ELSE IF err.ptr # Len(from) THEN [ec |-> "extra_bytes", to |-> err.value]
    ELSE [ec |-> no_error, to |-> err.value]

\* the big-endian value of the first n bytes, the first byte taken as signed
RECURSIVE BigEndian(_, _)
BigEndian(from, n) ==
    IF n = 1 THEN (IF from[1] > 127 THEN from[1] - 256 ELSE from[1])
    ELSE 256 * BigEndian(from, n - 1) + from[n]

\* boost::endian::endian_load<T, sizeof(T), order::big>: two's complement
endian_load(from, T) == BigEndian(from, SizeOf(T))

\* parse_binary_int<T>
parse_binary_int(from, T, to) ==
    IF Len(from) # SizeOf(T) THEN [ec |-> "protocol_value_error", to |-> to]
    ELSE [ec |-> no_error, to |-> endian_load(from, T)]

\* desc.fmt_code == format_code::text ? parse_text_int : parse_binary_int
parse_int(from, fmt_code, T, to) ==
    IF fmt_code = "text" THEN parse_text_int(from, T, to)
    ELSE parse_binary_int(from, T, to)

\* a narrower column read into a wider target: `T value{}; ec = parse(data,
\* value); to = value; return ec;`
parse_narrower(from, fmt_code, T) ==
    parse_int(from, fmt_code, T, 0)

------------------------------------------------------------------------------
(* types/datetime.hpp: the date and time codecs. A string_view or span is the *)
(* sequence of its bytes; positions are 0-based as in the code.              *)

\* std::isspace, std::isalpha, std::tolower in the "C" locale
isspace(b) == b = 32 \/ b \in 9..13
isalpha(b) == b \in 65..90 \/ b \in 97..122
tolower(b) == IF b \in 65..90 THEN b + 32 ELSE b

\* sv.substr(pos) and sv.substr(pos, n)
substr(sv, pos) == SubSeq(sv, pos + 1, Len(sv))
substr_n(sv, pos, n) == SubSeq(sv, pos + 1, pos + n)

\* the number of leading bytes of sv, from pos on, that are whitespace
RECURSIVE SpaceRun(_, _)
SpaceRun(sv, pos) ==
    IF pos < Len(sv) /\ isspace(sv[pos + 1]) THEN 1 + SpaceRun(sv, pos + 1) ELSE 0

\* the number of trailing bytes of sv that are whitespace
RECURSIVE SpaceTail(_)
SpaceTail(sv) ==
    IF Len(sv) > 0 /\ isspace(sv[Len(sv)]) THEN 1 + SpaceTail(SubSeq(sv, 1, Len(sv) - 1))
    ELSE 0

\* detail::trim
trim(sv) ==
    IF SpaceRun(sv, 0) = Len(sv) THEN <<>>
    ELSE SubSeq(sv, SpaceRun(sv, 0) + 1, Len(sv) - SpaceTail(sv))

\* detail::iequals
iequals(a, b) ==
    /\ Len(a) = Len(b)
    /\ \A i \in 1..Len(a) : tolower(a[i]) = tolower(b[i])

\* detail::consume_bc behind its first trim: t is the trimmed sv
consume_bc_trimmed(t) ==
    IF Len(t) < 2 THEN [bc |-> FALSE, sv |-> t]
    ELSE IF ~iequals(substr(t, Len(t) - 2), <<66, 67>>) THEN [bc |-> FALSE, sv |-> t]
    ELSE [bc |-> TRUE, sv |-> trim(SubSeq(t, 1, Len(t) - 2))]

\* detail::consume_bc(sv): whether a BC suffix was removed, and sv afterwards
consume_bc(sv) == consume_bc_trimmed(trim(sv))

\* std::chrono::days since 1970-01-01, and the epoch of PostgreSQL,
\* sys_days{2000y/1/1}
sys_days(count) == [special |-> "none", days |-> count]
pg_epoch == sys_days(10957)

\* a std::chrono::microseconds count. The model's integers are 32 bits wide, so
\* the count is held as whole seconds and microseconds of the second.
microseconds(sec, us) == [special |-> "none", sec |-> sec, us |-> us]

\* T::max() and T::min() of a time_point: the largest and the smallest count of
\* its representation, beyond every count the model holds
time_point_max(T) ==
    IF T = "date" THEN [special |-> "max", days |-> 0]
    ELSE [special |-> "max", sec |-> 0, us |-> 0]
time_point_min(T) ==
    IF T = "date" THEN [special |-> "min", days |-> 0]
    ELSE [special |-> "min", sec |-> 0, us |-> 0]

\* "infinity" and "-infinity"
infinity_text == <<105, 110, 102, 105, 110, 105, 116, 121>>
minus_infinity_text == <<45>> \o infinity_text

\* detail::parse_infinity<T> behind `sv = trim(sv)`
infinity_trimmed(sv, T, to) ==
    IF iequals(sv, infinity_text) THEN [found |-> TRUE, to |-> time_point_max(T)]
    ELSE IF iequals(sv, minus_infinity_text)
    THEN [found |-> TRUE, to |-> time_point_min(T)]
    ELSE [found |-> FALSE, to |-> to]

\* detail::parse_infinity<T>: whether sv is an infinity, and `to` afterwards
parse_infinity(sv, T, to) == infinity_trimmed(trim(sv), T, to)

\* the outcome of parse_date_parts
date_parts(ec, year, month, day) == [ec |-> ec, year |-> year, month |-> month, day |-> day]

\* parse_date_parts behind std::from_chars of the day: res is its result, p2
\* is where the month ended
date_parts_day(sv, year, month, p2, res) ==
    IF res.ec # no_error THEN date_parts(res.ec, year, month, 0)
    ELSE IF p2 + 1 + res.ptr # Len(sv)
    THEN date_parts("protocol_value_error", year, month, res.value)
    ELSE date_parts(no_error, year, month, res.value)

\* parse_date_parts behind std::from_chars of the month: res is its result, p1
\* is where the year ended
date_parts_month(sv, year, p1, res) ==
    IF res.ec # no_error THEN date_parts(res.ec, year, 0, 0)
    ELSE IF p1 + 1 + res.ptr >= Len(sv) \/ sv[p1 + 1 + res.ptr + 1] # 45
    THEN date_parts("protocol_value_error", year, res.value, 0)
    ELSE date_parts_day(sv, year, res.value, p1 + 1 + res.ptr,
                        from_chars(substr(sv, p1 + 1 + res.ptr + 1), "int32", 0))

\* parse_date_parts behind std::from_chars of the year: res is its result, sv
\* is trimmed
date_parts_year(sv, res) ==
    IF sv = <<>> THEN date_parts("protocol_value_error", 0, 0, 0)
    ELSE IF res.ec # no_error THEN date_parts(res.ec, 0, 0, 0)
    ELSE IF res.ptr >= Len(sv) \/ sv[res.ptr + 1] # 45
    THEN date_parts("protocol_value_error", res.value, 0, 0)
    ELSE date_parts_month(sv, res.value, res.ptr,
                          from_chars(substr(sv, res.ptr + 1), "int32", 0))

\* detail::parse_date_parts(sv, year, month, day)
parse_date_parts(sv0) == date_parts_year(trim(sv0), from_chars(trim(sv0), "int32", 0))

\* std::chrono::year{int}, month{unsigned}, day{unsigned}: the value stored in
\* the short and the two unsigned chars
year_of(y) == ((y + 32768) % 65536) - 32768
month_of(m) == m % 256
day_of(d) == d % 256

is_leap(y) == y % 4 = 0 /\ (y % 100 # 0 \/ y % 400 = 0)

last_day_of_month(y, m) ==
    CASE m = 2 -> (IF is_leap(y) THEN 29 ELSE 28)
      [] m \in {4, 6, 9, 11} -> 30
      [] OTHER -> 31

\* year_month_day::ok()
ymd_ok(y, m, d) ==
    /\ y # -32768
    /\ m \in 1..12
    /\ d >= 1 /\ d <= last_day_of_month(y, m)

\* sys_days{year_month_day}: the days from 1970-01-01 to y-m-d
days_from_civil(y, m, d) ==
    LET yy == IF m <= 2 THEN y - 1 ELSE y
        era == yy \div 400
        yoe == yy - era * 400
        doy == (153 * (IF m > 2 THEN m - 3 ELSE m + 9) + 2) \div 5 + d - 1
        doe == yoe * 365 + yoe \div 4 - yoe \div 100 + doy
    IN  era * 146097 + doe - 719468

\* the outcome of parse_time_prefix: pos and out are written on success only
time_prefix(ec, pos, out) == [ec |-> ec, pos |-> pos, out |-> out]

\* 10 to the n
RECURSIVE pow10(_)
pow10(n) == IF n = 0 THEN 1 ELSE 10 * pow10(n - 1)

\* the range checks of parse_time_prefix and its result
time_prefix_checked(hours, minutes, seconds, us, p, pos, out) ==
    IF hours < 0 \/ minutes < 0 \/ seconds < 0
    THEN time_prefix("protocol_value_error", pos, out)
    ELSE IF minutes > 59 \/ seconds > 59 THEN time_prefix("protocol_value_error", pos, out)
    ELSE IF hours > 24 THEN time_prefix("protocol_value_error", pos, out)
    ELSE IF hours = 24 /\ (minutes # 0 \/ seconds # 0 \/ us # 0)
    THEN time_prefix("protocol_value_error", pos, out)
    ELSE time_prefix(no_error, p, microseconds(hours * 3600 + minutes * 60 + seconds, us))

\* parse_time_prefix behind std::from_chars of the fraction: res is its result,
\* n the number of its digits, p is where the seconds ended
time_prefix_digits(hours, minutes, seconds, n, res, p, pos, out) ==
    IF n = 0 THEN time_prefix("protocol_value_error", pos, out)
    ELSE IF res.ec # no_error THEN time_prefix(res.ec, pos, out)
    ELSE time_prefix_checked(
             hours, minutes, seconds,
             IF n > 6 THEN res.value \div pow10(n - 6) ELSE res.value * pow10(6 - n),
             p + 1 + n, pos, out)

\* parse_time_prefix from the fraction on: p is where the seconds ended
time_prefix_fraction(sv, hours, minutes, seconds, p, pos, out) ==
    IF p < Len(sv) /\ sv[p + 1] = 46
    THEN time_prefix_digits(hours, minutes, seconds, DigitRun(sv, p + 1),
                            from_chars(substr_n(sv, p + 1, DigitRun(sv, p + 1)), "int32", 0),
                            p, pos, out)
    ELSE time_prefix_checked(hours, minutes, seconds, 0, p, pos, out)

\* parse_time_prefix behind std::from_chars of the seconds: res is its result,
\* p2 is where the minutes ended
time_prefix_seconds(sv, hours, minutes, p2, res, pos, out) ==
    IF res.ec # no_error THEN time_prefix(res.ec, pos, out)
    ELSE time_prefix_fraction(sv, hours, minutes, res.value, p2 + 1 + res.ptr, pos, out)

\* parse_time_prefix behind std::from_chars of the minutes: res is its result,
\* p is behind the first ':'
time_prefix_minutes(sv, hours, p, res, pos, out) ==
    IF res.ec # no_error THEN time_prefix(res.ec, pos, out)
    ELSE IF p + res.ptr >= Len(sv) \/ sv[p + res.ptr + 1] # 58
    THEN time_prefix("protocol_value_error", pos, out)
    ELSE time_prefix_seconds(sv, hours, res.value, p + res.ptr,
                             from_chars(substr(sv, p + res.ptr + 1), "int32", 0), pos, out)

\* parse_time_prefix behind std::from_chars of the hours: res is its result
time_prefix_hours(sv, res, pos, out) ==
    IF res.ec # no_error THEN time_prefix(res.ec, pos, out)
    ELSE IF pos + res.ptr >= Len(sv) \/ sv[pos + res.ptr + 1] # 58
    THEN time_prefix("protocol_value_error", pos, out)
    ELSE time_prefix_minutes(sv, res.value, pos + res.ptr + 1,
                             from_chars(substr(sv, pos + res.ptr + 1), "int32", 0), pos, out)

\* detail::parse_time_prefix(sv, pos, out)
parse_time_prefix(sv, pos, out) ==
    time_prefix_hours(sv, from_chars(substr(sv, pos), "int32", 0), pos, out)

\* the outcome of parse_tz_suffix: offset is written on success only
tz_suffix(ec, offset) == [ec |-> ec, offset |-> offset]

\* the end of parse_tz_suffix: p is where the parse stopped
tz_suffix_checked(sv, sign, hours, minutes, p, offset) ==
    IF p # Len(sv) THEN tz_suffix("protocol_value_error", offset)
    ELSE IF hours < 0 \/ hours > 15 \/ minutes < 0 \/ minutes > 59
    THEN tz_suffix("protocol_value_error", offset)
    ELSE tz_suffix(no_error, (hours * 3600 + minutes * 60) * sign)

\* the two digits of the minutes at p, in the ":MM" and the "HHMM" form
tz_suffix_minutes(sv, sign, hours, p, offset) ==
    IF ~IsDigit(sv[p + 1]) \/ ~IsDigit(sv[p + 2])
    THEN tz_suffix("protocol_value_error", offset)
    ELSE tz_suffix_checked(sv, sign, hours, (sv[p + 1] - 48) * 10 + (sv[p + 2] - 48),
                           p + 2, offset)

\* parse_tz_suffix behind the hours: digits is the number of their digits
tz_suffix_hours_read(sv, sign, digits, hours, offset) ==
    IF digits = 0 THEN tz_suffix("protocol_value_error", offset)
    ELSE IF 1 + digits = Len(sv) THEN tz_suffix_checked(sv, sign, hours, 0, 1 + digits, offset)
    ELSE IF sv[digits + 2] = 58
    THEN (IF Len(sv) - (digits + 2) < 2 THEN tz_suffix("protocol_value_error", offset)
          ELSE tz_suffix_minutes(sv, sign, hours, digits + 2, offset))
    ELSE IF IsDigit(sv[digits + 2])
    THEN (IF Len(sv) - (1 + digits) # 2 THEN tz_suffix("protocol_value_error", offset)
          ELSE tz_suffix_minutes(sv, sign, hours, 1 + digits, offset))
    ELSE tz_suffix("protocol_value_error", offset)

\* parse_tz_suffix behind the sign: at most two digits of hours
tz_suffix_digits(sv, sign, digits, offset) ==
    tz_suffix_hours_read(sv, sign, digits, DigitsValue(sv, 1, digits), offset)

\* parse_tz_suffix behind the sign: the hours and what follows them
tz_suffix_hours(sv, sign, offset) ==
    tz_suffix_digits(sv, sign, IF DigitRun(sv, 1) > 2 THEN 2 ELSE DigitRun(sv, 1), offset)

\* "Z", "UTC", "UT", "GMT"
zone_names == {<<90>>, <<85, 84, 67>>, <<85, 84>>, <<71, 77, 84>>}

\* parse_tz_suffix behind `sv = trim(sv.substr(pos))`
tz_suffix_trimmed(sv, offset) ==
    IF sv = <<>> THEN tz_suffix(no_error, 0)
    ELSE IF \E name \in zone_names : iequals(sv, name) THEN tz_suffix(no_error, 0)
    ELSE IF sv[1] # 43 /\ sv[1] # 45 THEN tz_suffix("protocol_value_error", offset)
    ELSE tz_suffix_hours(sv, IF sv[1] = 43 THEN 1 ELSE -1, offset)

\* detail::parse_tz_suffix(sv, pos, offset)
parse_tz_suffix(sv0, pos, offset) == tz_suffix_trimmed(trim(substr(sv0, pos)), offset)

\* what a codec returns, and the value of `to` after the call
parsed(ec, to) == [ec |-> ec, to |-> to]

\* the calendar check and the conversion that end parse_text_date
text_date_checked(parts, bc, to) ==
    LET y == year_of(IF bc THEN 1 - parts.year ELSE parts.year)
        m == month_of(parts.month)
        d == day_of(parts.day)
    IN  IF parts.ec # no_error THEN parsed(parts.ec, to)
        ELSE IF ~ymd_ok(y, m, d) THEN parsed("protocol_value_error", to)
        ELSE parsed(no_error, sys_days(days_from_civil(y, m, d)))

\* parse_text_date behind parse_infinity and consume_bc: inf and bc are their
\* results
text_date(inf, bc, to) ==
    IF inf.found THEN parsed(no_error, inf.to)
    ELSE text_date_checked(parse_date_parts(bc.sv), bc.bc, to)

\* types::parse_text_date
parse_text_date(from, to) == text_date(parse_infinity(from, "date", to), consume_bc(from), to)

\* pg_epoch + std::chrono::days{d}. A sum beyond the 32 bits of the model's
\* integers is kept as the addend, "beyond" every count the model holds: with a
\* 64-bit days count it is a count far below T::max(), with a 32-bit one the
\* addition overflows.
add_days(tp, d) ==
    IF d > 2147483647 - tp.days THEN [special |-> "beyond", days |-> d]
    ELSE sys_days(tp.days + d)

\* types::parse_binary_date
parse_binary_date(from, to) ==
    IF Len(from) # 4 THEN parsed("protocol_value_error", to)
    ELSE parsed(no_error, add_days(pg_epoch, endian_load(from, "int32")))

\* parse_text_time behind parse_time_prefix: r is its result, sv is trimmed
text_time(sv, r, to) ==
    IF r.ec # no_error THEN parsed(r.ec, to)
    ELSE IF trim(substr(sv, r.pos)) # <<>> THEN parsed("protocol_value_error", to)
    ELSE parsed(no_error, r.out)

\* types::parse_text_time
parse_text_time(from, to) ==
    IF from = <<>> THEN parsed("protocol_value_error", to)
    ELSE text_time(trim(from), parse_time_prefix(trim(from), 0, to), to)

\* the unsigned big-endian value of the first n bytes, as seconds and
\* microseconds
RECURSIVE load_unsigned(_, _)
load_unsigned(from, n) ==
    IF n = 0 THEN microseconds(0, 0)
    ELSE LET hi == load_unsigned(from, n - 1)
             low == hi.us * 256 + from[n]
         IN  microseconds(hi.sec * 256 + low \div 1000000, low % 1000000)

\* the negative count whose bitwise complement is the count w: -w - 1
complement(w) == microseconds(-w.sec - 1, 999999 - w.us)

\* endian_load<std::int64_t, 8, order::big> into std::chrono::microseconds:
\* two's complement. A count of 2^50 or more, or below -2^50, has more seconds
\* than the model's integers hold and is kept by its side only: "beyond" every
\* count the model holds, or "below" them.
load_microseconds(from) ==
    IF from[1] = 0 /\ from[2] < 4 THEN load_unsigned(from, 8)
    ELSE IF from[1] = 255 /\ from[2] >= 252
    THEN complement(load_unsigned([i \in 1..8 |-> 255 - from[i]], 8))
    ELSE [special |-> IF from[1] < 128 THEN "beyond" ELSE "below", sec |-> 0, us |-> 0]

\* types::parse_binary_time
parse_binary_time(from, to) ==
    IF Len(from) # 8 THEN parsed("protocol_value_error", to)
    ELSE parsed(no_error, load_microseconds(from))

\* types::pg_timetz
pg_timetz(time_since_midnight, utc_offset) ==
    [time_since_midnight |-> time_since_midnight, utc_offset |-> utc_offset]

\* parse_text_timetz behind parse_tz_suffix: z is its result
text_timetz_zone(time_of_day, z, to) ==
    IF z.ec # no_error THEN parsed(z.ec, to)
    ELSE parsed(no_error, pg_timetz(time_of_day, z.offset))

\* parse_text_timetz behind parse_time_prefix: r is its result, sv is trimmed
text_timetz(sv, r, to) ==
    IF r.ec # no_error THEN parsed(r.ec, to)
    ELSE text_timetz_zone(r.out, parse_tz_suffix(sv, r.pos, 0), to)

\* types::parse_text_timetz
parse_text_timetz(from, to) ==
    text_timetz(trim(from), parse_time_prefix(trim(from), 0, to.time_since_midnight), to)

\* types::parse_binary_timetz: the offset is stored in seconds west of UTC
parse_binary_timetz(from, to) ==
    IF Len(from) # 12 THEN parsed("protocol_value_error", to)
    ELSE parsed(no_error,
                pg_timetz(load_microseconds(SubSeq(from, 1, 8)),
                          -endian_load(SubSeq(from, 9, 12), "int32")))

\* sv.find_first_of(" T"): Len(sv) stands for npos
RECURSIVE find_first_of(_, _, _)
find_first_of(sv, chars, pos) ==
    IF pos >= Len(sv) THEN Len(sv)
    ELSE IF sv[pos + 1] \in chars THEN pos
    ELSE find_first_of(sv, chars, pos + 1)

\* the time of day that ends parse_text_timestamp and parse_text_timestamptz:
\* ec, the microseconds since midnight and the offset of the zone; here behind
\* parse_tz_suffix, z is its result
timestamp_zone(tod, z) == [ec |-> z.ec, tod |-> tod, offset |-> z.offset]

\* the same behind parse_time_prefix: r is its result
timestamp_time_read(time_sv, r, with_zone) ==
    IF r.ec # no_error THEN [ec |-> r.ec, tod |-> r.out, offset |-> 0]
    ELSE IF with_zone THEN timestamp_zone(r.out, parse_tz_suffix(time_sv, r.pos, 0))
    ELSE IF trim(substr(time_sv, r.pos)) # <<>>
    THEN [ec |-> "protocol_value_error", tod |-> r.out, offset |-> 0]
    ELSE [ec |-> no_error, tod |-> r.out, offset |-> 0]

\* the same from the start of the time of day
timestamp_time(time_sv, with_zone) ==
    timestamp_time_read(time_sv, parse_time_prefix(time_sv, 0, microseconds(0, 0)), with_zone)

\* the end of parse_text_timestamp and parse_text_timestamptz: date is the
\* sys_days of the date, time what timestamp_time gives
timestamp_sum(date, time, to) ==
    IF time.ec # no_error THEN parsed(time.ec, to)
    ELSE parsed(no_error,
                microseconds(date.days * 86400 + time.tod.sec - time.offset, time.tod.us))

\* the same behind the date: date is what the calendar check gives
timestamp_date(date, time_sv, with_zone, to) ==
    IF date.ec # no_error THEN parsed(date.ec, to)
    ELSE timestamp_sum(date.to, timestamp_time(time_sv, with_zone), to)

\* the same behind `sv.find_first_of(" T")`: sep is its result
timestamp_at(sv, sep, bc, with_zone, to) ==
    IF sep = Len(sv) THEN parsed("protocol_value_error", to)
    ELSE timestamp_date(
             text_date_checked(parse_date_parts(substr_n(sv, 0, sep)), bc, sys_days(0)),
             trim(substr(sv, sep + 1)), with_zone, to)

\* parse_text_timestamp and parse_text_timestamptz behind parse_infinity and
\* consume_bc: inf and bc are their results
text_timestamp(inf, bc, with_zone, to) ==
    IF inf.found THEN parsed(no_error, inf.to)
    ELSE timestamp_at(trim(bc.sv), find_first_of(trim(bc.sv), {32, 84}, 0), bc.bc,
                      with_zone, to)

\* types::parse_text_timestamp
parse_text_timestamp(from, to) ==
    text_timestamp(parse_infinity(from, "timestamp", to), consume_bc(from), FALSE, to)

\* pg_epoch + us: microseconds since 2000-01-01 onto the microseconds of
\* pg_epoch. A count kept by its side only stays on its side: the largest one
\* overflows the addition and the smallest one lands above T::min().
add_microseconds(tp, us) ==
    IF us.special # "none" THEN us
    ELSE microseconds(tp.days * 86400 + us.sec, us.us)

\* types::parse_binary_timestamp
parse_binary_timestamp(from, to) ==
    IF Len(from) # 8 THEN parsed("protocol_value_error", to)
    ELSE parsed(no_error, add_microseconds(pg_epoch, load_microseconds(from)))

\* types::parse_text_timestamptz
parse_text_timestamptz(from, to) ==
    text_timestamp(parse_infinity(from, "timestamptz", to), consume_bc(from), TRUE, to)

\* types::parse_binary_timestamptz
parse_binary_timestamptz(from, to) == parse_binary_timestamp(from, to)

\* the sum of two microseconds counts, and the count negated
us_add(a, b) ==
    microseconds(a.sec + b.sec + (a.us + b.us) \div 1000000, (a.us + b.us) % 1000000)
us_negate(a) ==
    IF a.us = 0 THEN microseconds(-a.sec, 0) ELSE microseconds(-a.sec - 1, 1000000 - a.us)

\* types::pg_interval
pg_interval(months, days, time) == [months |-> months, days |-> days, time |-> time]

\* the number of leading bytes of sv, from pos on, that are letters
RECURSIVE AlphaRun(_, _)
AlphaRun(sv, pos) ==
    IF pos < Len(sv) /\ isalpha(sv[pos + 1]) THEN 1 + AlphaRun(sv, pos + 1) ELSE 0

\* the units of parse_text_interval: "year", "mon", "day", "hour", "minute",
\* "second", each also with a final "s"
unit_year == <<121, 101, 97, 114>>
unit_mon == <<109, 111, 110>>
unit_day == <<100, 97, 121>>
unit_hour == <<104, 111, 117, 114>>
unit_minute == <<109, 105, 110, 117, 116, 101>>
unit_second == <<115, 101, 99, 111, 110, 100>>
is_unit(unit, name) == unit = name \/ unit = name \o <<115>>

\* `to` after the "value unit" token: ec and the interval
add_unit(to, val, unit) ==
    CASE is_unit(unit, unit_year) -> parsed(no_error, [to EXCEPT !.months = @ + val * 12])
      [] is_unit(unit, unit_mon) -> parsed(no_error, [to EXCEPT !.months = @ + val])
      [] is_unit(unit, unit_day) -> parsed(no_error, [to EXCEPT !.days = @ + val])
      [] is_unit(unit, unit_hour) ->
            parsed(no_error, [to EXCEPT !.time = us_add(@, microseconds(val * 3600, 0))])
      [] is_unit(unit, unit_minute) ->
            parsed(no_error, [to EXCEPT !.time = us_add(@, microseconds(val * 60, 0))])
      [] is_unit(unit, unit_second) ->
            parsed(no_error, [to EXCEPT !.time = us_add(@, microseconds(val, 0))])
      [] OTHER -> parsed("protocol_value_error", to)

\* the while loop of parse_text_interval from pos0 on: ec and `to`, which keeps
\* what was accumulated before an error
RECURSIVE interval_loop(_, _, _)

\* the loop behind a time part: time_part is what parse_text_time gave for it,
\* next is where it ends
interval_time(sv, next, sign, time_part, to) ==
    IF time_part.ec # no_error THEN parsed(time_part.ec, to)
    ELSE interval_loop(sv, next,
                       [to EXCEPT !.time = us_add(@, IF sign = -1 THEN us_negate(time_part.to)
                                                     ELSE time_part.to)])

\* the loop behind a "value unit" token: added is what add_unit gave for it,
\* next is where it ends
interval_added(sv, next, added) ==
    IF added.ec # no_error THEN added ELSE interval_loop(sv, next, added.to)

\* the loop behind the value of a "value unit" token: the unit starts at
\* unit_start
interval_unit(sv, val, unit_start, to) ==
    interval_added(sv, unit_start + AlphaRun(sv, unit_start),
                   add_unit(to, val, substr_n(sv, unit_start, AlphaRun(sv, unit_start))))

\* the loop behind std::from_chars of the value: res is its result, p is where
\* the digits start
interval_value(sv, p, sign, res, to) ==
    IF res.ec # no_error THEN parsed("protocol_value_error", to)
    ELSE interval_unit(sv, res.value * sign, p + res.ptr + SpaceRun(sv, p + res.ptr), to)

\* the loop at the part that starts at pos and ends before the next whitespace;
\* sign_offset is 1 when the part starts with a sign
interval_part(sv, pos, part, sign_offset, sign, to) ==
    IF \E i \in 1..Len(part) : part[i] = 58
    THEN interval_time(sv, pos + Len(part), sign,
                       parse_text_time(substr_n(sv, pos + sign_offset, Len(part) - sign_offset),
                                       microseconds(0, 0)),
                       to)
    ELSE interval_value(sv, pos + sign_offset, sign,
                        from_chars(substr(sv, pos + sign_offset), "int32", 0), to)

\* the loop behind skip_ws: pos is at a byte that is not whitespace, or at the
\* end
interval_at(sv, pos, to) ==
    IF pos >= Len(sv) THEN parsed(no_error, to)
    ELSE interval_part(sv, pos,
                       substr_n(sv, pos, find_first_of(sv, {32, 9, 10, 13}, pos) - pos),
                       IF sv[pos + 1] = 45 \/ sv[pos + 1] = 43 THEN 1 ELSE 0,
                       IF sv[pos + 1] = 45 THEN -1 ELSE 1, to)

interval_loop(sv, pos0, to) == interval_at(sv, pos0 + SpaceRun(sv, pos0), to)

\* types::parse_text_interval: `to` is zeroed before anything is read
parse_text_interval(from, to) ==
    IF from = <<>>
    THEN parsed("protocol_value_error", pg_interval(0, 0, microseconds(0, 0)))
    ELSE interval_loop(from, 0, pg_interval(0, 0, microseconds(0, 0)))

\* types::parse_binary_interval
parse_binary_interval(from, to) ==
    IF Len(from) # 16 THEN parsed("protocol_value_error", to)
    ELSE parsed(no_error,
                pg_interval(endian_load(SubSeq(from, 13, 16), "int32"),
                            endian_load(SubSeq(from, 9, 12), "int32"),
                            load_microseconds(SubSeq(from, 1, 8))))

\* the targets of field_parse other than the integers and the strings
datetime_types == {"date", "time", "timetz", "timestamp", "timestamptz", "interval"}

\* the OID in the BOOST_ASSERT of each of them
datetime_oid(T) ==
    CASE T = "date" -> 1082 [] T = "time" -> 1083 [] T = "timetz" -> 1266
      [] T = "timestamp" -> 1114 [] T = "timestamptz" -> 1184 [] T = "interval" -> 1186

\* desc.fmt_code == format_code::text ? parse_text_<T>(*from, to)
\*                                    : parse_binary_<T>(*from, to)
parse_datetime(T, fmt_code, from, to) ==
    CASE T = "date" ->
            IF fmt_code = "text" THEN parse_text_date(from, to) ELSE parse_binary_date(from, to)
      [] T = "time" ->
            IF fmt_code = "text" THEN parse_text_time(from, to) ELSE parse_binary_time(from, to)
      [] T = "timetz" ->
            IF fmt_code = "text" THEN parse_text_timetz(from, to)
            ELSE parse_binary_timetz(from, to)
      [] T = "timestamp" ->
            IF fmt_code = "text" THEN parse_text_timestamp(from, to)
            ELSE parse_binary_timestamp(from, to)
      [] T = "timestamptz" ->
            IF fmt_code = "text" THEN parse_text_timestamptz(from, to)
            ELSE parse_binary_timestamptz(from, to)
      [] T = "interval" ->
            IF fmt_code = "text" THEN parse_text_interval(from, to)
            ELSE parse_binary_interval(from, to)

------------------------------------------------------------------------------
(* response.cpp, field_traits.hpp: detail::field_parse *)

\* detail::field_parse<T>::call behind the test for a NULL column: data is
\* *from. T is an integer, "string" (any T assignable from std::string_view) or
\* a date-time type.
\* assert_failed: a BOOST_ASSERT on the column's type OID did not hold.
field_parse_value(T, data, desc, to) ==
    LET asserted(r, holds) == [ec |-> r.ec, to |-> r.to, assert_failed |-> ~holds]
        ok(r) == [ec |-> r.ec, to |-> r.to, assert_failed |-> FALSE]
        unreachable == [ec |-> no_error, to |-> to, assert_failed |-> TRUE]
    IN
    CASE T = "int16" ->
           [ec |-> parse_int(data, desc.fmt_code, "int16", to).ec,
            to |-> parse_int(data, desc.fmt_code, "int16", to).to,
            assert_failed |-> desc.type_oid # int2_oid]
      [] T = "int32" ->
           IF desc.type_oid = int2_oid
           THEN ok(parse_narrower(data, desc.fmt_code, "int16"))
           ELSE IF desc.type_oid = int4_oid
           THEN ok(parse_int(data, desc.fmt_code, "int32", to))
           ELSE unreachable
      [] T = "int64" ->
           IF desc.type_oid = int2_oid
           THEN ok(parse_narrower(data, desc.fmt_code, "int16"))
           ELSE IF desc.type_oid = int4_oid
           THEN ok(parse_narrower(data, desc.fmt_code, "int32"))
           ELSE IF desc.type_oid = int8_oid
           THEN ok(parse_int(data, desc.fmt_code, "int64", to))
           ELSE unreachable
      [] T = "string" -> [ec |-> no_error, to |-> data, assert_failed |-> FALSE]
      [] T \in datetime_types ->
           asserted(parse_datetime(T, desc.fmt_code, data, to),
                    desc.type_oid = datetime_oid(T))

\* field_parse reading *from without the test for a NULL column: the span of an
\* empty optional taken as the empty span
field_parse_null_as_empty(T, from, desc, to) ==
    field_parse_value(T, from.data, desc, to)

\* detail::field_parse<T>::call(from, desc, to)
field_parse(T, from, desc, to) ==
    IF ~from.has_value
    THEN [ec |-> "unexpected_null", to |-> to, assert_failed |-> FALSE]
    ELSE field_parse_value(T, from.data, desc, to)

\* the type OIDs of the columns field_parse<T> is called on: the ones its
\* branches and its BOOST_ASSERT name; a string target takes every type, of
\* which the model has these
admitted_oids(T) ==
    CASE T = "int16" -> {int2_oid}
      [] T = "int32" -> {int2_oid, int4_oid}
      [] T = "int64" -> {int2_oid, int4_oid, int8_oid}
      [] T = "string" -> {int2_oid, int4_oid, int8_oid} \cup
                         {datetime_oid(D) : D \in datetime_types}
      [] T \in datetime_types -> {datetime_oid(T)}

\* field_is_compatible in which an integer target takes its own type only
field_is_compatible_same_width(T, desc) ==
    CASE T = "int16" ->
           IF desc.type_oid = int2_oid THEN no_error ELSE "incompatible_field_type"
      [] T = "int32" ->
           IF desc.type_oid = int4_oid THEN no_error ELSE "incompatible_field_type"
      [] T = "int64" ->
           IF desc.type_oid = int8_oid THEN no_error ELSE "incompatible_field_type"
      [] T = "string" -> no_error
      [] T = "date" ->
           IF desc.type_oid = 1082 THEN no_error ELSE "incompatible_field_type"
      [] T = "time" ->
           IF desc.type_oid = 1083 THEN no_error ELSE "incompatible_field_type"
      [] T = "timetz" ->
           IF desc.type_oid = 1266 THEN no_error ELSE "incompatible_field_type"

\* detail::field_is_compatible<T>::call(desc). The specializations are those of
\* std::int16_t, std::int32_t, std::int64_t, every T assignable from
\* std::string_view, std::chrono::sys_days ("date"), std::chrono::microseconds
\* ("time") and pg_timetz; the template is only declared for any other T.
field_is_compatible(T, desc) ==
    CASE T = "int16" ->
           IF desc.type_oid = int2_oid THEN no_error ELSE "incompatible_field_type"
      [] T = "int32" ->
           IF desc.type_oid = int2_oid \/ desc.type_oid = int4_oid
           THEN no_error ELSE "incompatible_field_type"
      [] T = "int64" ->
           IF desc.type_oid = int2_oid \/ desc.type_oid = int4_oid \/ desc.type_oid = int8_oid
           THEN no_error ELSE "incompatible_field_type"
      [] T = "string" -> no_error
      [] T = "date" ->
           IF desc.type_oid = 1082 THEN no_error ELSE "incompatible_field_type"
      [] T = "time" ->
           IF desc.type_oid = 1083 THEN no_error ELSE "incompatible_field_type"
      [] T = "timetz" ->
           IF desc.type_oid = 1266 THEN no_error ELSE "incompatible_field_type"

------------------------------------------------------------------------------
(* response.cpp: detail::compute_pos_map *)

\* detail::invalid_pos, static_cast<std::size_t>(-1)
invalid_pos == -1

pos_map_entry(db_index, descr) == [db_index |-> db_index, descr |-> descr]

\* std::find(name_table.begin(), name_table.end(), name) - name_table.begin()
RECURSIVE find_name(_, _, _)
find_name(name_table, name, i) ==
    IF i = Len(name_table) \/ name_table[i + 1] = name THEN i
    ELSE find_name(name_table, name, i + 1)

\* look_up_fields that leaves an entry alone once a column was stored in it
RECURSIVE look_up_fields_first_wins(_, _, _, _)
look_up_fields_first_wins(meta, name_table, db_index, output) ==
    IF db_index = Len(meta) THEN output
    ELSE LET field == meta[db_index + 1]
             cpp_index == find_name(name_table, field.name, 0)
         IN  look_up_fields_first_wins(
                 meta, name_table, db_index + 1,
                 IF cpp_index # Len(name_table)
                      /\ output[cpp_index + 1].db_index = invalid_pos
                 THEN [output EXCEPT ![cpp_index + 1] = pos_map_entry(db_index, field)]
                 ELSE output)

\* the loop over meta.field_descriptions, from db_index on
RECURSIVE look_up_fields(_, _, _, _)
look_up_fields(meta, name_table, db_index, output) ==
    IF db_index = Len(meta) THEN output
    ELSE LET field == meta[db_index + 1]
             cpp_index == find_name(name_table, field.name, 0)
         IN  look_up_fields(
                 meta, name_table, db_index + 1,
                 IF cpp_index # Len(name_table)
                 THEN [output EXCEPT ![cpp_index + 1] = pos_map_entry(db_index, field)]
                 ELSE output)

\* compute_pos_map without the final search for an unmapped field
compute_pos_map_unchecked(meta, name_table) ==
    [ec |-> no_error,
     output |-> look_up_fields(meta, name_table, 0,
                    [i \in 1..Len(name_table) |-> pos_map_entry(invalid_pos, empty_descr)])]

\* detail::compute_pos_map(meta, name_table, output): ec and output
compute_pos_map(meta, name_table) ==
    LET cleared == [i \in 1..Len(name_table) |-> pos_map_entry(invalid_pos, empty_descr)]
        output == look_up_fields(meta, name_table, 0, cleared)
    IN  [ec |-> IF \E i \in 1..Len(output) : output[i].db_index = invalid_pos
                THEN "field_not_found" ELSE no_error,
         output |-> output]

------------------------------------------------------------------------------
(* response.hpp: resultset_callback_t<T, Callback>, and the mock_handler of *)
(* test_response.cpp                                                        *)

\* The row type T of the modelled result-set handlers:
\*   struct row { std::int32_t id; std::int16_t n; };
\* detail::row_name_table_v<T> and detail::row_field_types_t<T>
row_name_table == <<"id", "n">>
row_field_types == <<"int32", "int16">>
row_size == Len(row_name_table)

\* extended_error
extended_error(code, diag) == [code |-> code, diag |-> diag]
no_diag == ""

\* any_request_message: the alternative, and the members the handlers read
message(type, field_descriptions, columns, diag) ==
    [type |-> type, field_descriptions |-> field_descriptions, columns |-> columns,
     diag |-> diag]
plain_message(type) == message(type, <<>>, <<>>, no_diag)
row_description(field_descriptions) == message("row_description", field_descriptions, <<>>, no_diag)
data_row(columns) == message("data_row", <<>>, columns, no_diag)
error_response(diag) == message("error_response", <<>>, <<>>, diag)

\* the alternatives the visitor has no overload for: they reach the template
unexpected_types == {"close_complete", "parameter_description", "empty_query_response"}

\* pos_map_ before the first RowDescription: the member has no initializer
indeterminate == <<>>

\* a handler object. kind "resultset": resultset_callback_t<row, into_handler<row>>,
\* with vec the vector of into(vec); kind "mock": mock_handler<num_msgs>.
\* msgs is the mock's vector; for a result-set handler it is history, the
\* on_message calls it has received.
new_handler(kind, num_msgs) ==
    [kind |-> kind, num_msgs |-> num_msgs, msgs |-> <<>>,
     err_ |-> extended_error(no_error, no_diag),
     state_ |-> "parsing_meta", pos_map_ |-> indeterminate,
     random_access_data_ |-> <<>>, vec |-> <<>>]

\* store_error without the `if (!err_.code)`: the last error wins
store_error_overwrite(h, ec) ==
    [h EXCEPT !.err_ = extended_error(ec, no_diag)]

\* store_error that records nothing
store_error_dropped(h, ec) == h

\* resultset_callback_t::store_error
store_error(h, ec) ==
    IF h.err_.code = no_error
    THEN [h EXCEPT !.err_ = extended_error(ec, no_diag)]
    ELSE h

\* operator()(error_response) without `self.err_.diag.assign(err)`
store_server_error_code_only(h, err) ==
    IF h.err_.code = no_error
    THEN [h EXCEPT !.err_ = extended_error("exec_server_error", no_diag)]
    ELSE h

\* visitor::operator()(const protocol::error_response& err)
store_server_error(h, err) ==
    IF h.err_.code = no_error
    THEN [h EXCEPT !.err_ = extended_error("exec_server_error", err.diag)]
    ELSE h

\* operator()(row_description) without its metadata check
metadata_check_skipped(pos_map, idx) == no_error

\* the metadata check of operator()(row_description): the first error of
\* field_is_compatible over the declared fields, in order
RECURSIVE metadata_check(_, _)
metadata_check(pos_map, idx) ==
    IF idx = row_size THEN no_error
    ELSE LET ec2 == field_is_compatible(row_field_types[idx + 1], pos_map[idx + 1].descr)
             rest == metadata_check(pos_map, idx + 1)
         IN  IF ec2 # no_error THEN ec2 ELSE rest

\* the for_each_member loop of operator()(data_row), from member idx on.
\* threw: random_access_data_.at(ent.db_index) is out of range
\* (std::out_of_range leaves on_message). asserted: a BOOST_ASSERT of a field
\* codec failed before that.
RECURSIVE parse_members(_, _, _, _, _, _)
parse_members(pos_map, data, idx, ec, row, asserted) ==
    IF idx = row_size
    THEN [threw |-> FALSE, asserted |-> asserted, ec |-> ec, row |-> row]
    ELSE LET ent == pos_map[idx + 1] IN
         IF ~(ent.db_index >= 0 /\ ent.db_index < Len(data))
         THEN [threw |-> TRUE, asserted |-> asserted, ec |-> ec, row |-> row]
         ELSE LET r == field_parse(row_field_types[idx + 1], data[ent.db_index + 1],
                                   ent.descr, row[idx + 1])
              IN  parse_members(pos_map, data, idx + 1,
                                IF ec = no_error THEN r.ec ELSE ec,
                                [row EXCEPT ![idx + 1] = r.to],
                                asserted \/ r.assert_failed)

\* T row{}
empty_row == [i \in 1..row_size |-> 0]

visited(h, asserted, threw) == [h |-> h, asserted |-> asserted, threw |-> threw]

\* the end of operator()(data_row), after the for_each_member loop with
\* outcome p: the exception leaves, or the error is stored, or the callback
\* cb_(std::move(row)) of into(vec) pushes the row
row_parsed(h1, p, asserted) ==
    IF p.threw THEN visited(h1, asserted \/ p.asserted, TRUE)
    ELSE IF p.ec # no_error
    THEN visited(store_error(h1, p.ec), asserted \/ p.asserted, FALSE)
    ELSE visited([h1 EXCEPT !.vec = Append(@, p.row)], asserted \/ p.asserted, FALSE)

\* resultset_callback_t::visitor, in a build without assertions: the handler
\* after the message, whether a BOOST_ASSERT would have failed, and whether
\* an exception left the call. garbage is what a read of pos_map_ gives while
\* it is indeterminate.
visit(h, msg, garbage) ==
    CASE msg.type \in unexpected_types ->
           visited(store_error(h, "incompatible_response_type"), TRUE, FALSE)
      [] msg.type = "error_response" -> visited(store_server_error(h, msg), FALSE, FALSE)
      [] msg.type \in {"parse_complete", "bind_complete"} ->
           visited(h, FALSE, FALSE)
      [] msg.type = "row_description" ->
           LET asserted == h.state_ # "parsing_meta"
               pm == compute_pos_map(msg.field_descriptions, row_name_table)
               h1 == [h EXCEPT !.state_ = "parsing_data", !.pos_map_ = pm.output]
               ec == IF pm.ec # no_error THEN pm.ec ELSE metadata_check(pm.output, 0)
           IN  visited(IF ec # no_error THEN store_error(h1, ec) ELSE h1, asserted, FALSE)
      [] msg.type = "data_row" ->
           IF h.err_.code # no_error THEN visited(h, h.state_ # "parsing_data", FALSE)
           ELSE row_parsed(
                    [h EXCEPT !.random_access_data_ = msg.columns],
                    parse_members(IF h.pos_map_ = indeterminate THEN garbage ELSE h.pos_map_,
                                  msg.columns, 0, no_error, empty_row, FALSE),
                    h.state_ # "parsing_data")
      [] msg.type \in {"command_complete", "portal_suspended"} ->
           visited([h EXCEPT !.state_ = "done"], h.state_ # "parsing_data", FALSE)
      [] msg.type = "message_skipped" ->
           visited(store_error(h, "step_skipped"), FALSE, FALSE)

\* mock_handler::on_message: msgs.push_back({to_type(msg), offset}); for a
\* result-set handler the same record is history
record_message(h, msg, offset) ==
    [h EXCEPT !.msgs = Append(@, <<msg.type, offset>>)]

\* the outcome v of a visit, with the call added to the handler's history
recorded(v, msg, offset) ==
    visited(record_message(v.h, msg, offset), v.asserted, v.threw)

\* Handler::on_message(msg, offset)
handler_on_message(h, msg, offset, garbage) ==
    IF h.kind = "mock" THEN visited(record_message(h, msg, offset), FALSE, FALSE)
    ELSE recorded(visit(h, msg, garbage), msg, offset)

\* Handler::setup(req, offset); mock_handler: {offset + num_msgs}
handler_setup(h, types, offset, oob) ==
    IF h.kind = "mock"
    THEN [ec |-> no_error, offset |-> offset + h.num_msgs, oob_read |-> FALSE]
    ELSE resultset_setup(types, offset, oob)

\* Handler::result()
handler_result(h) == h.err_

------------------------------------------------------------------------------
(* response.hpp: response<Handlers...> *)

\* response::setup with every handler given the offset of the call (the
\* `offset = res.offset` of the loop left out)
RECURSIVE setup_loop_unchained(_, _, _, _, _, _, _)
setup_loop_unchained(hs, types, i, offset, offsets, log, oobs) ==
    IF i = Len(hs)
    THEN [res |-> setup_ok(offset), offsets |-> offsets, log |-> log, fault |-> FALSE]
    ELSE LET r == handler_setup(hs[i + 1], types, offset, oobs[i + 1])
             log1 == Append(log, <<i, offset>>)
         IN  IF r.oob_read /\ oobs[i + 1] = "fault"
             THEN [res |-> setup_ok(offset), offsets |-> offsets, log |-> log1,
                   fault |-> TRUE]
             ELSE IF r.ec # no_error
             THEN [res |-> setup_error(r.ec), offsets |-> offsets, log |-> log1,
                   fault |-> FALSE]
             ELSE setup_loop_unchained(hs, types, i + 1, offset,
                                       [offsets EXCEPT ![i + 1] = r.offset], log1, oobs)

\* response::setup, from handler i on. fault: a handler's scan read past the
\* end of the tag vector and the read faulted.
RECURSIVE setup_loop(_, _, _, _, _, _, _)
setup_loop(hs, types, i, offset, offsets, log, oobs) ==
    IF i = Len(hs)
    THEN [res |-> setup_ok(offset), offsets |-> offsets, log |-> log, fault |-> FALSE]
    ELSE LET r == handler_setup(hs[i + 1], types, offset, oobs[i + 1])
             log1 == Append(log, <<i, offset>>)
         IN  IF r.oob_read /\ oobs[i + 1] = "fault"
             THEN [res |-> setup_ok(offset), offsets |-> offsets, log |-> log1,
                   fault |-> TRUE]
             ELSE IF r.ec # no_error
             THEN [res |-> setup_error(r.ec), offsets |-> offsets, log |-> log1,
                   fault |-> FALSE]
             ELSE setup_loop(hs, types, i + 1, r.offset,
                             [offsets EXCEPT ![i + 1] = r.offset], log1, oobs)

\* response::result() with the loop keeping the last error it meets
RECURSIVE last_error(_, _)
last_error(hs, i) ==
    IF i = Len(hs) THEN handler_result(hs[1])
    ELSE LET rest == last_error(hs, i + 1) IN
         IF rest.code # no_error THEN rest
         ELSE IF handler_result(hs[i + 1]).code # no_error THEN handler_result(hs[i + 1])
         ELSE rest

\* response::result(): the first handler whose result has a code, else the
\* first handler's result
RECURSIVE first_error(_, _)
first_error(hs, i) ==
    IF i = Len(hs) THEN handler_result(hs[1])
    ELSE IF handler_result(hs[i + 1]).code # no_error THEN handler_result(hs[i + 1])
    ELSE first_error(hs, i + 1)

result == first_error(handlers, 0)

------------------------------------------------------------------------------
(* Actions: building a request from raw messages, then one scan *)

NoSetup == [ec |-> no_error, offset |-> 0, oob_read |-> FALSE]

\* no exec operation has completed
NoExec == [error |-> no_error, result |-> extended_error(no_error, no_diag)]

\* no response object yet
NoResponse ==
    /\ handlers = <<>>
    /\ offsets_ = <<>>
    /\ current_ = 0
    /\ setup_arg = 0
    /\ setup_res = setup_ok(0)
    /\ setup_calls = <<>>
    /\ last_offset = 0
    /\ delivered = <<>>
    /\ exec_result = NoExec
    /\ asserts_off = FALSE

\* connection_impl{ex}: the socket is not open and has no asynchronous
\* operation outstanding; st is protocol::connection_state{}, of which the
\* model keeps the operation whose fsm_.resume(impl.st, ...) accessed it last
\* (operations are numbered from 1 in the order they were started; 0: none)
connection_impl ==
    [sock |-> [is_open |-> FALSE, outstanding |-> {}], st |-> [accessed_by |-> 0]]

\* a connection on which no operation was started
NoConnection ==
    /\ impl = connection_impl
    /\ ops = <<>>

\* no free function is called on its own
NoCall ==
    /\ args = [fn |-> "none"]
    /\ ret = [ec |-> no_error]

\* a result-set handler's setup(req, offset), called on its own
call_resultset_setup(offset, oob) ==
    /\ pc = "building"
    /\ LET r == resultset_setup(types_, offset, oob) IN
         /\ rs_res' = r
         /\ pc' = IF r.oob_read /\ oob = "fault" THEN "fault" ELSE "done"
    /\ rs_arg' = offset
    /\ UNCHANGED <<connection_vars, request_vars, call_vars, response_vars>>

\* maybe_add_sync that adds the Sync whatever autosync_ is
maybe_add_sync_always(req, autosync, fails) ==
    add_advanced_impl(req, "sync", fails)

\* request::maybe_add_sync
maybe_add_sync(req, autosync, fails) ==
    IF autosync THEN add_advanced_impl(req, "sync", fails) ELSE req

\* *this at the start of a member function
this == request_value(buffer_, types_, FALSE)

\* request::add_query: Parse, Bind, Describe, Execute, then Sync under
\* autosync. fail_at: which of these does not serialize (0: none)
add_query_tags(req, autosync, fail_at) ==
    maybe_add_sync(
        add_advanced_impl(add_advanced_impl(add_advanced_impl(add_advanced_impl(
            req, "parse", fail_at = 1), "bind", fail_at = 2), "describe", fail_at = 3),
            "execute", fail_at = 4),
        autosync, fail_at = 5)

\* request::add_execute: Bind, Describe, Execute, then Sync under autosync
add_execute_tags(req, autosync, fail_at) ==
    maybe_add_sync(
        add_advanced_impl(add_advanced_impl(add_advanced_impl(
            req, "bind", fail_at = 1), "describe", fail_at = 2), "execute", fail_at = 3),
        autosync, fail_at = 4)

\* one message, then maybe_add_sync(): add_prepare, add_describe_statement,
\* add_describe_portal, add_close_statement, add_close_portal
add_then_sync(req, type, autosync, fail_at) ==
    maybe_add_sync(add_advanced_impl(req, type, fail_at = 1), autosync, fail_at = 2)

\* a call of a member function that adds messages: the request becomes req,
\* within `max` tags. fail_at names the message of the call that does not
\* serialize; it is 0 exactly when no exception leaves the call.
builder_call(name, req, fail_at, max) ==
    /\ pc = "building"
    /\ Len(req.types_) <= max
    /\ req.threw = (fail_at # 0)
    /\ types_' = req.types_
    /\ buffer_' = req.buffer_
    /\ calls' = Append(calls, <<name, autosync_, fail_at>>)
    /\ UNCHANGED <<connection_vars, autosync_, pc, scan_vars, call_vars, response_vars>>

\* request::add(const protocol::<msg>&), one overload per tag
add(tag, fails, max) ==
    builder_call("add " \o tag, add_advanced_impl(this, tag, fails),
                 IF fails THEN 1 ELSE 0, max)

\* request::add_simple_query
add_simple_query(max, fail_at) ==
    builder_call("add_simple_query", add_advanced_impl(this, "query", fail_at = 1),
                 fail_at, max)

\* request::add_query
add_query(max, fail_at) ==
    builder_call("add_query", add_query_tags(this, autosync_, fail_at), fail_at, max)

\* request::add_prepare
add_prepare(max, fail_at) ==
    builder_call("add_prepare", add_then_sync(this, "parse", autosync_, fail_at),
                 fail_at, max)

\* request::add_execute
add_execute(max, fail_at) ==
    builder_call("add_execute", add_execute_tags(this, autosync_, fail_at), fail_at, max)

\* request::add_describe_statement
add_describe_statement(max, fail_at) ==
    builder_call("add_describe_statement",
                 add_then_sync(this, "describe", autosync_, fail_at), fail_at, max)

\* request::add_describe_portal
add_describe_portal(max, fail_at) ==
    builder_call("add_describe_portal",
                 add_then_sync(this, "describe", autosync_, fail_at), fail_at, max)

\* request::add_close_statement
add_close_statement(max, fail_at) ==
    builder_call("add_close_statement",
                 add_then_sync(this, "close", autosync_, fail_at), fail_at, max)

\* request::add_close_portal
add_close_portal(max, fail_at) ==
    builder_call("add_close_portal",
                 add_then_sync(this, "close", autosync_, fail_at), fail_at, max)

\* request::set_autosync
set_autosync(value) ==
    /\ pc = "building"
    /\ autosync_' = value
    /\ UNCHANGED <<connection_vars, types_, buffer_, calls, pc, scan_vars, call_vars, response_vars>>

\* the template arguments of the mock_handler objects
MockSizes == {2}

\* the handler objects a response is constructed from
Handlers ==
    {new_handler("resultset", 0)} \cup {new_handler("mock", n) : n \in MockSizes}

HandlerLists(max) == UNION {[1..n -> Handlers] : n \in 1..max}

\* response::response(Args&&...): offsets_{} and current_{} are zero
construct(hs) ==
    /\ pc = "building"
    /\ pc' = "constructed"
    /\ handlers' = hs
    /\ offsets_' = [i \in 1..Len(hs) |-> 0]
    /\ current_' = 0
    /\ UNCHANGED <<connection_vars, request_vars, scan_vars, call_vars, setup_arg, setup_res, setup_calls,
                   last_offset, delivered, exec_result, asserts_off>>

\* response::setup(req, offset). oobs[i] is what handler i's scan reads if
\* it reads past the end of the tag vector.
response_setup(offset, oobs) ==
    /\ pc = "constructed"
    /\ LET r == setup_loop(handlers, types_, 0, offset, offsets_, <<>>, oobs) IN
         /\ setup_res' = r.res
         /\ offsets_' = r.offsets
         /\ setup_calls' = r.log
         /\ pc' = IF r.fault THEN "setup_fault"
                  ELSE IF r.res.ec # no_error THEN "setup_failed"
                  ELSE "routing"
    /\ setup_arg' = offset
    /\ UNCHANGED <<connection_vars, request_vars, scan_vars, call_vars, handlers, current_, last_offset, delivered, exec_result, asserts_off>>

\* what a read of the indeterminate pos_map_ can give: entries that point
\* nowhere, or at column 0 with some description
IndeterminatePosMaps ==
    {[i \in 1..row_size |-> pos_map_entry(db, d)] :
        db \in {invalid_pos, 0},
        d \in {empty_descr, field_description("", int2_oid, "text")}}

\* response::on_message(msg, offset). abort: the build has assertions on and
\* a failed BOOST_ASSERT ends the process.
on_message(msg, offset, garbage, abort) ==
    /\ pc = "routing"
    /\ LET current == IF offset >= offsets_[current_ + 1] THEN current_ + 1 ELSE current_
       IN
       IF current >= Len(handlers)
       THEN \* offsets_[current_] and vtable_[current_] are read out of bounds
            /\ ~abort
            /\ pc' = "fault"
            /\ current_' = current
            /\ UNCHANGED <<handlers, asserts_off>>
       ELSE \E v \in {handler_on_message(handlers[current + 1], msg, offset, garbage)} :
            \E asserted \in {~(offset < offsets_[current + 1]) \/ v.asserted} :
                /\ abort => (asserted /\ ~asserts_off)
                /\ IF abort
                   THEN /\ pc' = "aborted"
                        /\ current_' = current
                        /\ UNCHANGED <<handlers, asserts_off>>
                   ELSE /\ pc' = IF v.threw THEN "threw" ELSE "routing"
                        /\ current_' = current
                        /\ handlers' = [handlers EXCEPT ![current + 1] = v.h]
                        /\ asserts_off' = (asserts_off \/ asserted)
    /\ last_offset' = offset
    /\ delivered' = Append(delivered, msg)
    /\ UNCHANGED <<connection_vars, request_vars, scan_vars, call_vars, offsets_, setup_arg, setup_res, setup_calls,
                   exec_result>>

\* the errors an exec_fsm finishes with: none, or one of the socket
TransportErrors == {"eof", "operation_aborted"}

\* exec_fsm::get_result with a completion that prefers the handlers' error
get_result_handler_first(ec) ==
    IF result.code # no_error THEN result
    ELSE extended_error(ec, no_diag)

\* exec_fsm::get_result(ec)
get_result(ec) ==
    IF ec # no_error THEN extended_error(ec, no_diag) ELSE result

\* exec_op::operator(), case done: self.complete(fsm_.get_result(res.error()))
exec_done(ec) ==
    /\ pc = "routing"
    /\ pc' = "completed"
    /\ exec_result' = [error |-> ec, result |-> get_result(ec)]
    /\ UNCHANGED <<connection_vars, request_vars, scan_vars, call_vars, handlers, offsets_, current_, setup_arg,
                   setup_res, setup_calls, last_offset, delivered, asserts_off>>

InitSetup ==
    /\ NoConnection
    /\ types_ = <<>>
    /\ buffer_ = <<>>
    /\ autosync_ \in BOOLEAN
    /\ calls = <<>>
    /\ pc = "building"
    /\ rs_arg = 0
    /\ rs_res = NoSetup
    /\ NoResponse
    /\ NoCall

NextSetup ==
    \/ \E tag \in request_message_type : add(tag, FALSE, MaxRawTags)
    \/ \E offset \in 0..Len(types_), oob \in OobReads : call_resultset_setup(offset, oob)

SpecSetup == InitSetup /\ [][NextSetup]_vars

(* Building a request: every member function that adds messages, each     *)
(* message of a call serializing or not, and set_autosync                 *)

InitRequest ==
    /\ NoConnection
    /\ types_ = <<>>
    /\ buffer_ = <<>>
    /\ autosync_ \in BOOLEAN
    /\ calls = <<>>
    /\ pc = "building"
    /\ rs_arg = 0
    /\ rs_res = NoSetup
    /\ NoResponse
    /\ NoCall

NextRequest ==
    \/ \E tag \in request_message_type, fails \in BOOLEAN :
          Len(calls) < MaxCalls /\ add(tag, fails, MaxRequestTags)
    \/ \E fail_at \in 0..1 :
          Len(calls) < MaxCalls /\ add_simple_query(MaxRequestTags, fail_at)
    \/ \E fail_at \in 0..5 :
          Len(calls) < MaxCalls /\ add_query(MaxRequestTags, fail_at)
    \/ \E fail_at \in 0..2 :
          Len(calls) < MaxCalls /\ add_prepare(MaxRequestTags, fail_at)
    \/ \E fail_at \in 0..4 :
          Len(calls) < MaxCalls /\ add_execute(MaxRequestTags, fail_at)
    \/ \E fail_at \in 0..2 :
          Len(calls) < MaxCalls /\ add_describe_statement(MaxRequestTags, fail_at)
    \/ \E fail_at \in 0..2 :
          Len(calls) < MaxCalls /\ add_describe_portal(MaxRequestTags, fail_at)
    \/ \E fail_at \in 0..2 :
          Len(calls) < MaxCalls /\ add_close_statement(MaxRequestTags, fail_at)
    \/ \E fail_at \in 0..2 :
          Len(calls) < MaxCalls /\ add_close_portal(MaxRequestTags, fail_at)
    \/ \E value \in BOOLEAN : set_autosync(value)

SpecRequest == InitRequest /\ [][NextRequest]_vars

(* Building a request with the add_* helpers, then response::setup *)

InitBuild ==
    /\ NoConnection
    /\ types_ = <<>>
    /\ buffer_ = <<>>
    /\ autosync_ = TRUE
    /\ calls = <<>>
    /\ pc = "building"
    /\ rs_arg = 0
    /\ rs_res = NoSetup
    /\ NoResponse
    /\ NoCall

NextBuild ==
    \/ add_simple_query(MaxBuildTags, 0)
    \/ add_query(MaxBuildTags, 0)
    \/ add_prepare(MaxBuildTags, 0)
    \/ add_execute(MaxBuildTags, 0)
    \/ \E hs \in HandlerLists(MaxSetupHandlers) : construct(hs)
    \/ \E offset \in 0..Len(types_), oobs \in [1..Len(handlers) -> OobReads] :
          response_setup(offset, oobs)

SpecBuild == InitBuild /\ [][NextBuild]_vars

(* Building a request, response::setup(req, 0), then routing messages *)

\* the messages routed: one the result-set handler ignores and two it
\* records an error for
RoutedMessages ==
    {plain_message("parse_complete"), error_response("diag"),
     plain_message("message_skipped")}

\* the offsets on_message is called with: not below the last one, and below
\* the tag count or the end-offset the setup returned
RoutedOffsets ==
    {o \in last_offset..(Len(types_) + setup_res.offset) :
        o < Len(types_) \/ o < setup_res.offset}

Init ==
    /\ NoConnection
    /\ types_ = <<>>
    /\ buffer_ = <<>>
    /\ autosync_ \in BOOLEAN
    /\ calls = <<>>
    /\ pc = "building"
    /\ rs_arg = 0
    /\ rs_res = NoSetup
    /\ NoResponse
    /\ NoCall

Next ==
    \/ add_simple_query(MaxTags, 0)
    \/ add_prepare(MaxTags, 0)
    \/ add_execute(MaxTags, 0)
    \/ \E hs \in HandlerLists(MaxHandlers) : construct(hs)
    \/ \E oobs \in [1..Len(handlers) -> OobReads] : response_setup(0, oobs)
    \/ \E msg \in RoutedMessages, offset \in RoutedOffsets, abort \in BOOLEAN :
          Len(delivered) < MaxMsgs /\ on_message(msg, offset, indeterminate, abort)

Spec == Init /\ [][Next]_vars

(* One result-set handler, into(vec), set up over a request of one Query *)

\* RowDescriptions: the columns of row in the other order, which the handler
\* accepts, and one without the column n, which it does not
accepted_description ==
    row_description(<<field_description("n", int2_oid, "text"),
                      field_description("id", int4_oid, "text")>>)
rejected_description ==
    row_description(<<field_description("id", int4_oid, "text")>>)

\* DataRows, columns in the order (n, id) of accepted_description:
\* ("12", "7"), ("5", "3"), ("x", "7") whose n does not parse, and ("7") which
\* has no column 1
row_12_7 == data_row(<<column(<<49, 50>>), column(<<55>>)>>)
row_5_3 == data_row(<<column(<<53>>), column(<<51>>)>>)
row_x_7 == data_row(<<column(<<120>>), column(<<55>>)>>)
row_short == data_row(<<column(<<55>>)>>)

HandlerMessages ==
    {accepted_description, rejected_description,
     row_12_7, row_5_3, row_x_7, row_short,
     error_response("diag"), plain_message("message_skipped"),
     plain_message("command_complete")}

\* request req; req.add_simple_query(...); std::vector<row> vec;
\* response res{into(vec)}; res.setup(req, 0);
InitHandler ==
    /\ NoConnection
    /\ types_ = <<"query">>
    /\ buffer_ = serialize("query", <<>>, FALSE).to
    /\ autosync_ = TRUE
    /\ calls = <<(<<"add_simple_query", TRUE, 0>>)>>
    /\ pc = "routing"
    /\ rs_arg = 0
    /\ rs_res = NoSetup
    /\ handlers = <<new_handler("resultset", 0)>>
    /\ offsets_ = <<1>>
    /\ current_ = 0
    /\ setup_arg = 0
    /\ setup_res = setup_ok(1)
    /\ setup_calls = <<(<<0, 0>>)>>
    /\ last_offset = 0
    /\ delivered = <<>>
    /\ exec_result = NoExec
    /\ asserts_off = FALSE
    /\ NoCall

NextHandler ==
    \/ \E msg \in HandlerMessages, garbage \in IndeterminatePosMaps, abort \in BOOLEAN :
          Len(delivered) < MaxHandlerMsgs /\ on_message(msg, 0, garbage, abort)
    \/ \E ec \in {no_error} \cup TransportErrors : exec_done(ec)

SpecHandler == InitHandler /\ [][NextHandler]_vars

(* The same handler, receiving every kind of message its visitor has an     *)
(* overload for                                                             *)

\* the most messages delivered to it
MaxResultsetMsgs == 3

\* a RowDescription with both columns of row, of which id has a type the
\* std::int32_t member does not take, and one in which neither has
id_incompatible_description ==
    row_description(<<field_description("n", int2_oid, "text"),
                      field_description("id", int8_oid, "text")>>)
both_incompatible_description ==
    row_description(<<field_description("id", int8_oid, "text"),
                      field_description("n", int4_oid, "text")>>)

ResultsetMessages ==
    {accepted_description, rejected_description, id_incompatible_description,
     both_incompatible_description,
     plain_message("parse_complete"), plain_message("bind_complete"),
     row_12_7, error_response("diag"), error_response("23505"),
     plain_message("message_skipped"), plain_message("empty_query_response"),
     plain_message("command_complete"), plain_message("portal_suspended")}

NextResultset ==
    \E msg \in ResultsetMessages, garbage \in IndeterminatePosMaps, abort \in BOOLEAN :
        Len(delivered) < MaxResultsetMsgs /\ on_message(msg, 0, garbage, abort)

SpecResultset == InitHandler /\ [][NextResultset]_vars

------------------------------------------------------------------------------
(* connection.hpp: connection, connect_op and exec_op. The bodies of         *)
(* connect_fsm::resume and exec_fsm::resume follow the description of the     *)
(* operations' state machines: resume returns one of write, read, connect,    *)
(* close and done, and the runtime performs the I/O and re-enters it.         *)

\* operations started on one connection, and resumes of one operation
MaxOps == 2
MaxResumes == 5

\* startup_fsm::result: its type() and its error()
fsm_result(type, ec) == [type |-> type, ec |-> ec]

\* the state machine of an operation after a resume, and what the resume returned
resumed(state_, res) == [fsm_ |-> [state_ |-> state_], res |-> res]

\* exec_fsm{req, handler} and connect_fsm{params}
exec_fsm == [state_ |-> "initial"]
connect_fsm == [state_ |-> "initial"]

\* exec_fsm::resume(st, ec, bytes_transferred): the request is written, then
\* the response is read; more: the bytes read so far do not end the response
exec_fsm_resume(fsm_, ec, more) ==
    CASE fsm_.state_ = "initial" -> resumed("writing", fsm_result("write", no_error))
      [] fsm_.state_ = "writing" ->
           IF ec # no_error THEN resumed("writing", fsm_result("done", ec))
           ELSE resumed("reading", fsm_result("read", no_error))
      [] fsm_.state_ = "reading" ->
           IF ec # no_error THEN resumed("reading", fsm_result("done", ec))
           ELSE IF more THEN resumed("reading", fsm_result("read", no_error))
           ELSE resumed("reading", fsm_result("done", no_error))

\* connect_fsm::resume(st, ec, bytes_transferred): the physical connect, the
\* startup message written, the server's answer read; an error closes the
\* socket before the operation is done
connect_fsm_resume(fsm_, ec, more) ==
    CASE fsm_.state_ = "initial" -> resumed("connecting", fsm_result("connect", no_error))
      [] fsm_.state_ = "connecting" ->
           IF ec # no_error THEN resumed("closing", fsm_result("close", ec))
           ELSE resumed("writing", fsm_result("write", no_error))
      [] fsm_.state_ = "writing" ->
           IF ec # no_error THEN resumed("closing", fsm_result("close", ec))
           ELSE resumed("reading", fsm_result("read", no_error))
      [] fsm_.state_ = "reading" ->
           IF ec # no_error THEN resumed("closing", fsm_result("close", ec))
           ELSE IF more THEN resumed("reading", fsm_result("read", no_error))
           ELSE resumed("reading", fsm_result("done", no_error))
      [] fsm_.state_ = "closing" -> resumed("closing", fsm_result("done", ec))

\* fsm_.resume(impl.st, ec, bytes_transferred) of a connect_op or an exec_op
fsm_resume(kind, fsm_, ec, more) ==
    IF kind = "exec_op" THEN exec_fsm_resume(fsm_, ec, more)
    ELSE connect_fsm_resume(fsm_, ec, more)

\* an operation object: connect_op{impl, fsm_} or exec_op{impl, fsm_}, with the
\* asynchronous operation it waits for ("none": it has completed), the number
\* of its resumes and the extended_error it completed with
operation(kind, fsm_, waits_for, resumes, completed_with) ==
    [kind |-> kind, fsm_ |-> fsm_, waits_for |-> waits_for, resumes |-> resumes,
     completed_with |-> completed_with]

\* the operation is between its initiation and its completion
in_progress(o) == o.waits_for # "none"

\* impl.st after fsm_.resume(impl.st, ...) of operation i
accessed(st, i) == [st EXCEPT !.accessed_by = i]

\* the case of the switch over res.type() in connect_op::operator() and
\* exec_op::operator(), for operation i whose resume gave r; resumes counts
\* that resume. The value is the operation and impl afterwards.
switch_type(i, kind, r, resumes, im) ==
    CASE r.res.type \in {"write", "read", "connect"} ->
           [op |-> operation(kind, r.fsm_, r.res.type, resumes, extended_error(no_error, no_diag)),
            impl |-> [sock |-> [is_open |-> im.sock.is_open \/ r.res.type = "connect",
                                outstanding |-> im.sock.outstanding \cup {i}],
                      st |-> accessed(im.st, i)]]
      [] r.res.type = "close" ->
           \* ec = impl.sock.close(ec); (*this)(self, ec): the resume that
           \* follows returns done
           [op |-> operation(kind, r.fsm_, "none", resumes + 1,
                             extended_error(r.res.ec, no_diag)),
            impl |-> [sock |-> [is_open |-> FALSE, outstanding |-> im.sock.outstanding],
                      st |-> accessed(im.st, i)]]
      [] r.res.type = "done" ->
           [op |-> operation(kind, r.fsm_, "none", resumes,
                             IF kind = "exec_op" THEN get_result(r.res.ec)
                             ELSE extended_error(r.res.ec, no_diag)),
            impl |-> [sock |-> im.sock, st |-> accessed(im.st, i)]]

\* connect_op::operator()(self, ec, bytes_transferred) and
\* exec_op::operator()(self, ec, bytes_transferred) of operation i
operator_call(i, kind, fsm_, resumes, ec, more, im) ==
    switch_type(i, kind, fsm_resume(kind, fsm_, ec, more), resumes + 1, im)

\* boost::asio::async_compose with a new operation object: its first call
initiated(kind, fsm_) ==
    operator_call(Len(ops) + 1, kind, fsm_, 0, no_error, FALSE, impl)

\* connection::async_connect(params, token)
async_connect ==
    /\ pc = "connection"
    /\ Len(ops) < MaxOps
    /\ ops' = Append(ops, initiated("connect_op", connect_fsm).op)
    /\ impl' = initiated("connect_op", connect_fsm).impl
    /\ UNCHANGED <<request_vars, pc, scan_vars, call_vars, response_vars>>

\* connection::async_exec(req, handler, token)
async_exec ==
    /\ pc = "connection"
    /\ Len(ops) < MaxOps
    /\ ops' = Append(ops, initiated("exec_op", exec_fsm).op)
    /\ impl' = initiated("exec_op", exec_fsm).impl
    /\ UNCHANGED <<request_vars, pc, scan_vars, call_vars, response_vars>>

\* operation i entered again with the socket's outstanding operation taken out
reentered(i, ec, more) ==
    operator_call(i, ops[i].kind, ops[i].fsm_, ops[i].resumes, ec, more,
                  [impl EXCEPT !.sock.outstanding = @ \ {i}])

\* the runtime completes the asynchronous operation that operation i waits
\* for and calls the operation object with its outcome
io_completed(i, ec, more) ==
    /\ pc = "connection"
    /\ i \in 1..Len(ops)
    /\ in_progress(ops[i])
    /\ more => ops[i].resumes + 1 < MaxResumes
    /\ ops' = [ops EXCEPT ![i] = reentered(i, ec, more).op]
    /\ impl' = reentered(i, ec, more).impl
    /\ UNCHANGED <<request_vars, pc, scan_vars, call_vars, response_vars>>

\* connection conn{ex}; request req; response res{handler};
InitConnection ==
    /\ NoConnection
    /\ types_ = <<>>
    /\ buffer_ = <<>>
    /\ autosync_ = TRUE
    /\ calls = <<>>
    /\ pc = "connection"
    /\ rs_arg = 0
    /\ rs_res = NoSetup
    /\ handlers = <<new_handler("mock", 0)>>
    /\ offsets_ = <<0>>
    /\ current_ = 0
    /\ setup_arg = 0
    /\ setup_res = setup_ok(0)
    /\ setup_calls = <<>>
    /\ last_offset = 0
    /\ delivered = <<>>
    /\ exec_result = NoExec
    /\ asserts_off = FALSE
    /\ NoCall

NextConnection ==
    \/ async_connect
    \/ async_exec
    \/ \E i \in 1..MaxOps, ec \in {no_error} \cup TransportErrors, more \in BOOLEAN :
          io_completed(i, ec, more)

SpecConnection == InitConnection /\ [][NextConnection]_vars

\* C22: on one connection at most one logical operation (async_connect or
\* async_exec) is in progress at any time, and between two suspension points of
\* an operation no other operation accesses the connection's shared state (the
\* last access to it is that of the operation in progress): the steps of two
\* operations never interleave.
C22_OneOperationAtATime ==
    /\ \A i, j \in 1..Len(ops) : (in_progress(ops[i]) /\ in_progress(ops[j])) => i = j
    /\ \A i \in 1..Len(ops) : in_progress(ops[i]) => impl.st.accessed_by = i

------------------------------------------------------------------------------
(* Properties of resultset_setup, under SpecSetup *)

\* the C++ element i of the tag vector
TagAt(i) == types_[i + 1]

\* a direct call of resultset_setup has returned (or faulted)
SetupCalled == pc \in {"done", "fault"}

\* the tags from the start offset on hold a Describe at d, an Execute at e
\* and a Sync in between, and nothing but Sync, Flush, Parse and Bind
\* elsewhere before e: (d, e) are the region's Describe and Execute
SyncBetweenDescribeAndExecute ==
    \E d \in rs_arg..(Len(types_) - 1), e \in rs_arg..(Len(types_) - 1) :
        /\ d < e
        /\ TagAt(d) = "describe"
        /\ TagAt(e) = "execute"
        /\ \A i \in rs_arg..(e - 1) :
              i # d => TagAt(i) \in {"sync", "flush", "parse", "bind"}
        /\ \E s \in (d + 1)..(e - 1) : TagAt(s) = "sync"

\* C6: whenever a Sync tag lies between the region's Describe and its
\* Execute, resultset_setup returns incompatible_response_type.
C6_SyncBetweenRejected ==
    (SetupCalled /\ SyncBetweenDescribeAndExecute)
        => rs_res.ec = "incompatible_response_type"

\* the tags from the start offset on hold no Execute
NoExecuteFromStart ==
    \A i \in rs_arg..(Len(types_) - 1) : TagAt(i) # "execute"

\* after the leading Sync/Flush tags the next tag is the Query at index q
LeadingQueryAt(q) ==
    /\ q \in rs_arg..(Len(types_) - 1)
    /\ TagAt(q) = "query"
    /\ \A i \in rs_arg..(q - 1) : TagAt(i) \in {"sync", "flush"}

\* C7: when the tags from the start offset on hold no Execute and do not begin
\* (after leading Sync/Flush tags) with a Query, resultset_setup returns
\* incompatible_response_type and reads no element past the end of the vector.
C7_NoExecuteRejectedInBounds ==
    (SetupCalled /\ NoExecuteFromStart /\ ~(\E q \in 0..Len(types_) : LeadingQueryAt(q)))
        => (pc = "done" /\ rs_res.ec = "incompatible_response_type" /\ ~rs_res.oob_read)

\* C8: when, after the Sync and Flush tags at the start offset, the next tag is
\* a Query at index q, resultset_setup succeeds with end-offset q + 1, and the
\* region [start, q + 1) holds exactly one tag that is not Sync or Flush.
C8_LeadingQueryConsumesOne ==
    \A q \in 0..Len(types_) :
        (SetupCalled /\ LeadingQueryAt(q)) =>
            /\ pc = "done"
            /\ rs_res.ec = no_error
            /\ rs_res.offset = q + 1
            /\ ~rs_res.oob_read
            /\ Cardinality({i \in rs_arg..(rs_res.offset - 1) :
                               TagAt(i) \notin {"sync", "flush"}}) = 1

\* a scan from offset 0 of [Sync, Query, Sync] has returned 2: the leading
\* Sync is skipped and the trailing one is left out of the region
C8_Witness ==
    /\ pc = "done"
    /\ types_ = <<"sync", "query", "sync">>
    /\ rs_arg = 0
    /\ rs_res.ec = no_error
    /\ rs_res.offset = 2

\* after the leading Sync/Flush tags the next tag, at index s, is not a
\* Query: an extended-query region starts at s
ExtendedRegionAt(s) ==
    /\ s \in rs_arg..(Len(types_) - 1)
    /\ TagAt(s) \notin {"sync", "flush", "query"}
    /\ \A i \in rs_arg..(s - 1) : TagAt(i) \in {"sync", "flush"}

\* the Execute of the region at s is at index e: the first one from s on
RegionExecuteAt(s, e) ==
    /\ e \in s..(Len(types_) - 1)
    /\ TagAt(e) = "execute"
    /\ \A i \in s..(e - 1) : TagAt(i) # "execute"

\* the indexes of the region at s that lie before its Execute (all of them
\* when it has none)
BeforeExecute(s) ==
    {i \in s..(Len(types_) - 1) : \A j \in s..i : TagAt(j) # "execute"}

\* the indexes before the Execute of the region at s that hold one of `tags`
TagsBeforeExecute(s, tags) == {i \in BeforeExecute(s) : TagAt(i) \in tags}

\* C28: in an extended-query region resultset_setup returns
\* incompatible_response_type when a second Describe occurs before the
\* Execute, when an Execute occurs before any Describe, and when a Close or
\* Query tag occurs before the Execute; Flush, Parse and Bind tags before the
\* Execute never cause an error: a region of them with one Describe and an
\* Execute is accepted.
C28_ExtendedRegionRejections ==
    \A s \in 0..Len(types_) :
        (SetupCalled /\ ExtendedRegionAt(s)) =>
            /\ pc = "done"
            /\ Cardinality(TagsBeforeExecute(s, {"describe"})) >= 2
                  => rs_res.ec = "incompatible_response_type"
            /\ ((\E e \in 0..Len(types_) : RegionExecuteAt(s, e))
                   /\ TagsBeforeExecute(s, {"describe"}) = {})
                  => rs_res.ec = "incompatible_response_type"
            /\ TagsBeforeExecute(s, {"close", "query"}) # {}
                  => rs_res.ec = "incompatible_response_type"
            /\ ((\E e \in 0..Len(types_) : RegionExecuteAt(s, e))
                   /\ Cardinality(TagsBeforeExecute(s, {"describe"})) = 1
                   /\ BeforeExecute(s)
                        = TagsBeforeExecute(s, {"flush", "parse", "bind", "describe"}))
                  => rs_res.ec = no_error

\* a scan from offset 0 of [Parse, Describe, Describe, Execute] has returned
\* incompatible_response_type: the second Describe comes before the Execute
C28_Witness ==
    /\ pc = "done"
    /\ types_ = <<"parse", "describe", "describe", "execute">>
    /\ rs_arg = 0
    /\ rs_res.ec = "incompatible_response_type"

\* C29: when resultset_setup succeeds on an extended-query region, the
\* end-offset it returns is the index, counted from the start of the tag
\* vector, just past the region's Execute and past every Sync or Flush tag
\* that immediately follows it; the next tag that is neither is left out, and
\* the offset is greater than the start offset and at most the tag count.
C29_EndOffsetPastExecute ==
    \A s \in 0..Len(types_) :
        (SetupCalled /\ ExtendedRegionAt(s) /\ rs_res.ec = no_error) =>
            /\ rs_res.offset > rs_arg
            /\ rs_res.offset <= Len(types_)
            /\ \E e \in s..(rs_res.offset - 1) :
                  /\ RegionExecuteAt(s, e)
                  /\ \A i \in (e + 1)..(rs_res.offset - 1) : TagAt(i) \in {"sync", "flush"}
            /\ rs_res.offset < Len(types_) => TagAt(rs_res.offset) \notin {"sync", "flush"}

\* a scan from offset 1 of [Query, Describe, Execute, Sync] has returned 4:
\* the index past the trailing Sync, counted from the start of the vector
C29_Witness ==
    /\ pc = "done"
    /\ types_ = <<"query", "describe", "execute", "sync">>
    /\ rs_arg = 1
    /\ rs_res.ec = no_error
    /\ rs_res.offset = 4

------------------------------------------------------------------------------
(* Properties of response::setup, under SpecBuild *)

\* response::setup has returned
ResponseSetupReturned == pc \in {"routing", "setup_failed"}

\* the region of handler c (1-based) starts where the one before it ends
RegionStart(c) == IF c = 1 THEN setup_arg ELSE offsets_[c - 1]

\* the builder calls are add_simple_query, add_query and add_prepare
\* immediately followed by add_execute, all with autosync on
BuiltFromStatements ==
    /\ \A k \in 1..Len(calls) :
          /\ calls[k][1] \in {"add_simple_query", "add_query", "add_prepare", "add_execute"}
          /\ calls[k][2] = TRUE
          /\ calls[k][3] = 0
          /\ calls[k][1] = "add_prepare" =>
                (k < Len(calls) /\ calls[k + 1][1] = "add_execute")
          /\ calls[k][1] = "add_execute" =>
                (k > 1 /\ calls[k - 1][1] = "add_prepare")

\* the row-returning statements of the request
StatementCount ==
    Cardinality({k \in 1..Len(calls) :
                    calls[k][1] \in {"add_simple_query", "add_query", "add_execute"}})

\* the response holds one result-set handler per row-returning statement
OneResultsetPerStatement ==
    /\ Len(handlers) = StatementCount
    /\ \A c \in 1..Len(handlers) : handlers[c].kind = "resultset"

\* C3: for a request built from add_simple_query, add_query and
\* add_prepare + add_execute calls with autosync on, and a response of one
\* result-set handler per row-returning statement, response.setup(request, 0)
\* succeeds and returns the request's tag count.
C3_SetupTotality ==
    (/\ pc \in {"routing", "setup_failed", "setup_fault"}
     /\ setup_arg = 0
     /\ BuiltFromStatements
     /\ OneResultsetPerStatement)
        => (/\ pc = "routing"
            /\ setup_res = setup_ok(Len(types_)))

\* a simple query and a prepared statement's execution, under two result-set
\* handlers: the regions end at 1 and 7
C3_Witness ==
    /\ pc = "routing"
    /\ setup_arg = 0
    /\ Len(calls) = 3
    /\ calls[1][1] = "add_simple_query"
    /\ calls[2][1] = "add_prepare"
    /\ calls[3][1] = "add_execute"
    /\ OneResultsetPerStatement
    /\ offsets_ = <<1, 7>>
    /\ setup_res = setup_ok(7)

\* handler c (1-based) returned end-offset e when set up at offset start
HandlerReturned(c, start, e) ==
    IF handlers[c].kind = "mock" THEN e = start + handlers[c].num_msgs
    ELSE \E oob \in OobReads :
            resultset_setup(types_, start, oob) = [ec |-> no_error, offset |-> e,
                                                   oob_read |-> resultset_setup(types_, start, oob).oob_read]

\* C4: response.setup(request, start) sets the handlers up in index order,
\* handler i at the end-offset handler i - 1 returned (start for handler 0),
\* and records each returned end-offset; when handler i reports an error it
\* returns that error and no later handler is set up; otherwise it returns
\* the last handler's end-offset.
C4_SetupChain ==
    ResponseSetupReturned =>
        LET n == Len(setup_calls) IN
        /\ n \in 1..Len(handlers)
        /\ \A k \in 1..n : setup_calls[k] = <<k - 1, RegionStart(k)>>
        /\ IF pc = "routing"
           THEN /\ n = Len(handlers)
                /\ \A k \in 1..n : HandlerReturned(k, RegionStart(k), offsets_[k])
                /\ setup_res = setup_ok(offsets_[n])
           ELSE /\ \A k \in 1..(n - 1) : HandlerReturned(k, RegionStart(k), offsets_[k])
                /\ \A k \in n..Len(handlers) : offsets_[k] = 0
                /\ handlers[n].kind = "resultset"
                /\ \E oob \in OobReads :
                      resultset_setup(types_, RegionStart(n), oob).ec = setup_res.ec
                /\ setup_res = setup_error("incompatible_response_type")

\* three handlers over two add_prepare calls: the mock handler takes the
\* first Parse and Sync, the result-set handler finds no Execute after them
\* and reports an error, the third handler is not set up
C4_Witness ==
    /\ pc = "setup_failed"
    /\ types_ = <<"parse", "sync", "parse", "sync">>
    /\ Len(handlers) = 3
    /\ handlers[1].kind = "mock"
    /\ handlers[2].kind = "resultset"
    /\ setup_calls = <<(<<0, 0>>), (<<1, 2>>)>>
    /\ offsets_ = <<2, 0, 0>>
    /\ setup_res = setup_error("incompatible_response_type")

------------------------------------------------------------------------------
(* Properties of the router, under Spec *)

\* the region of handler c (1-based) holds offset o
InRegion(c, o) == RegionStart(c) <= o /\ o < offsets_[c]

\* C1: after a successful setup, when on_message is called with non-decreasing
\* offsets below the last end-offset, each message is handed, with its offset,
\* to the handler whose region holds the offset, and to no other.
C1_RoutedToRegionOwner ==
    (pc \in {"routing", "aborted", "fault"} /\ last_offset < setup_res.offset)
        => /\ pc = "routing"
           /\ \A c \in 1..Len(handlers) :
                 \A k \in 1..Len(handlers[c].msgs) : InRegion(c, handlers[c].msgs[k][2])

\* the lowest-indexed handlers that hold an error
ErrorHandlers == {c \in 1..Len(handlers) : handlers[c].err_.code # no_error}

\* C2: response.result() is the result of the lowest-indexed handler that
\* holds an error code, and handler 0's result when no handler holds one.
C2_FirstErrorWins ==
    Len(handlers) > 0 =>
        IF ErrorHandlers = {}
        THEN result = handlers[1].err_ /\ result.code = no_error
        ELSE \E c \in ErrorHandlers :
                /\ \A d \in ErrorHandlers : c <= d
                /\ result = handlers[c].err_

\* handler 0 holds no error, handlers 1 and 2 hold different ones: the result
\* is handler 1's
C2_Witness ==
    /\ types_ = <<"query", "query", "query">>
    /\ offsets_ = <<1, 2, 3>>
    /\ handlers[1].err_.code = no_error
    /\ handlers[2].err_.code = "exec_server_error"
    /\ handlers[3].err_.code = "step_skipped"
    /\ result = extended_error("exec_server_error", "diag")

\* the state part of the router's index invariant: once on_message has been
\* called with offsets below the tag count, no call has gone out of bounds or
\* failed the assertion, and every handled offset is below the handler's bound
CurrentInRange ==
    (pc \in {"routing", "aborted", "fault"} /\ last_offset < Len(types_))
        => /\ pc = "routing"
           /\ current_ \in 0..(Len(handlers) - 1)
           /\ ~asserts_off
           /\ \A c \in 1..Len(handlers) :
                 \A k \in 1..Len(handlers[c].msgs) : handlers[c].msgs[k][2] < offsets_[c]

\* C5: after a successful setup, when on_message is called with non-decreasing
\* offsets below the request's tag count, the current handler index stays in
\* [0, N), never decreases, and every dispatch has offset < offsets_[current_]
\* (the assertion of on_message holds).
C5_CurrentInRange == [](CurrentInRange) /\ [][current_' >= current_]_vars

------------------------------------------------------------------------------
(* Properties of the result-set handler, under SpecHandler *)

\* the result-set handler of SpecHandler
into_vec == handlers[1]

AcceptedThenRows ==
    /\ Len(delivered) >= 1
    /\ delivered[1].type = "row_description"
    /\ compute_pos_map(delivered[1].field_descriptions, row_name_table).ec = no_error
    /\ metadata_check(
          compute_pos_map(delivered[1].field_descriptions, row_name_table).output, 0)
          = no_error
    /\ \A k \in 2..Len(delivered) : delivered[k].type = "data_row"

\* the decoding of the DataRow delivered[k] under the RowDescription delivered[1]
Decoded(k) ==
    parse_members(compute_pos_map(delivered[1].field_descriptions, row_name_table).output,
                  delivered[k].columns, 0, no_error, empty_row, FALSE)
DecodingFails(k) == Decoded(k).threw \/ Decoded(k).ec # no_error

\* the DataRows before the first one whose decoding fails
RowsBeforeFirstFailure ==
    {k \in 2..Len(delivered) : \A j \in 2..k : ~DecodingFails(j)}

C11_TransportErrorWins ==
    pc = "completed" =>
        IF exec_result.error # no_error
        THEN exec_result.result = [code |-> exec_result.error, diag |-> ""]
        ELSE exec_result.result = result

\* the handler holds the server's error and its diagnostic; the operation
\* finished with eof and completes with eof and no diagnostic
C11_Witness ==
    /\ pc = "completed"
    /\ into_vec.err_ = extended_error("exec_server_error", "diag")
    /\ exec_result.error = "eof"
    /\ exec_result.result = [code |-> "eof", diag |-> ""]

------------------------------------------------------------------------------
(* detail::compute_pos_map called on its own *)

\* all sequences over S of length 0..n
SeqsUpTo(S, n) == UNION {[1..k -> S] : k \in 0..n}

\* the names of the server's columns and the declared names of the row type
ColumnNames == {"id", "ID", "n"}
DeclaredNames == {"id", "n", "x"}

\* the columns of the row descriptions
Columns ==
    {field_description(name, type_oid, "text") :
        name \in ColumnNames, type_oid \in {int2_oid, int4_oid}}

InitPosMap ==
    /\ NoConnection
    /\ types_ = <<>>
    /\ buffer_ = <<>>
    /\ autosync_ = TRUE
    /\ calls = <<>>
    /\ pc = "calling"
    /\ rs_arg = 0
    /\ rs_res = NoSetup
    /\ NoResponse
    /\ args \in [fn : {"compute_pos_map"},
                 meta : SeqsUpTo(Columns, MaxColumns),
                 name_table : SeqsUpTo(DeclaredNames, MaxNames)]
    /\ ret = [ec |-> no_error]

\* compute_pos_map(meta, name_table, output) returns
call_compute_pos_map ==
    /\ pc = "calling"
    /\ args.fn = "compute_pos_map"
    /\ ret' = compute_pos_map(args.meta, args.name_table)
    /\ pc' = "returned"
    /\ UNCHANGED <<connection_vars, request_vars, scan_vars, args, response_vars>>

NextPosMap == call_compute_pos_map

SpecPosMap == InitPosMap /\ [][NextPosMap]_vars

\* the declared names are pairwise distinct
DistinctNames(name_table) ==
    \A i, j \in 1..Len(name_table) : name_table[i] = name_table[j] => i = j

\* every declared name is the name of at least one server column
AllNamesPresent(meta, name_table) ==
    \A i \in 1..Len(name_table) : \E j \in 1..Len(meta) : meta[j].name = name_table[i]

\* no entry of the map is left at the invalid index
NoInvalidEntry(output) ==
    \A i \in 1..Len(output) : output[i].db_index # invalid_pos

\* C15: for pairwise distinct declared names, compute_pos_map succeeds with no
\* entry left at the invalid index exactly when every declared name equals,
\* case-sensitively, the name of some server column; otherwise it returns
\* field_not_found.
C15_PosMapTotality ==
    (pc = "returned" /\ args.fn = "compute_pos_map" /\ DistinctNames(args.name_table)) =>
        IF AllNamesPresent(args.meta, args.name_table)
        THEN ret.ec = no_error /\ NoInvalidEntry(ret.output)
        ELSE ret.ec = "field_not_found"

\* declared (n, id) against the columns (id, n): a total map; the same against
\* (ID, n) would not be
C15_Witness ==
    /\ pc = "returned"
    /\ args.fn = "compute_pos_map"
    /\ args.name_table = <<"n", "id">>
    /\ Len(args.meta) = 2 /\ args.meta[1].name = "id" /\ args.meta[2].name = "n"
    /\ ret.ec = no_error
    /\ ret.output[1].db_index = 1 /\ ret.output[2].db_index = 0

\* the C++ index of the last server column named `name`
LastColumnNamed(meta, name) ==
    CHOOSE j \in 0..(Len(meta) - 1) :
        /\ meta[j + 1].name = name
        /\ \A k \in (j + 1)..(Len(meta) - 1) : meta[k + 1].name # name

\* C30: when compute_pos_map succeeds, the map has one entry per declared
\* field, and the entry of each declared field holds the index and the field
\* description of the last server column whose name equals the declared name;
\* server columns whose name is not declared are in no entry.
C30_LastColumnWins ==
    (pc = "returned" /\ args.fn = "compute_pos_map" /\ ret.ec = no_error) =>
        /\ Len(ret.output) = Len(args.name_table)
        /\ \A i \in 1..Len(args.name_table) :
              /\ \E j \in 1..Len(args.meta) : args.meta[j].name = args.name_table[i]
              /\ ret.output[i] =
                    pos_map_entry(LastColumnNamed(args.meta, args.name_table[i]),
                                  args.meta[LastColumnNamed(args.meta, args.name_table[i]) + 1])

\* declared (id) against the columns (id int2, ID int2, id int4): the entry
\* holds the second column named id, and the undeclared ID is in no entry
C30_Witness ==
    /\ pc = "returned"
    /\ args.fn = "compute_pos_map"
    /\ args.name_table = <<"id">>
    /\ args.meta = <<field_description("id", int2_oid, "text"),
                     field_description("ID", int2_oid, "text"),
                     field_description("id", int4_oid, "text")>>
    /\ ret.ec = no_error
    /\ ret.output = <<pos_map_entry(2, field_description("id", int4_oid, "text"))>>

------------------------------------------------------------------------------
(* detail::field_parse called on its own *)

\* the most bytes of the text payloads of an integer column drawn from
\* int_text_bytes
MaxIntText == 3

\* '-', '1', '9', 'x'
int_text_bytes == {45, 49, 57, 120}

\* text payloads of an integer column: the short ones, and the ends of the range
\* of std::int16_t
text_int_payloads ==
    SeqsUpTo(int_text_bytes, MaxIntText) \cup
    {<<51, 50, 55, 54>>,         \* "3276"
     <<51, 50, 55, 54, 55>>,     \* "32767"
     <<51, 50, 55, 54, 56>>}     \* "32768"

\* text payloads of a date column
text_date_payloads ==
    {<<49, 57, 55, 55, 45, 48, 54, 45, 50, 49>>,  \* "1977-06-21"
     <<50, 48, 48, 48, 45, 48, 49, 45, 48, 49>>,  \* "2000-01-01"
     <<48, 48, 52, 52, 45, 48, 51, 45, 49, 53, 32, 66, 67>>,  \* "0044-03-15 BC"
     <<50, 48, 50, 52, 45, 48, 50, 45, 51, 48>>,  \* "2024-02-30"
     <<49, 57, 55, 55, 45, 48, 54, 45, 50>>,  \* "1977-06-2"
     <<50, 48, 50, 52, 45, 49>>,  \* "2024-1"
     <<105, 110, 102, 105, 110, 105, 116, 121>>,  \* "infinity"
     <<45, 105, 110, 102, 105, 110, 105, 116, 121>>,  \* "-infinity"
     <<97, 98, 99>>,  \* "abc"
     <<>>}  \* ""

\* text payloads of a time column
text_time_payloads ==
    {<<50, 49, 58, 48, 54, 58, 49, 57>>,  \* "21:06:19"
     <<49, 50, 58, 51, 52, 58, 50, 51, 46, 52, 51, 53, 51, 53, 48>>,  \* "12:34:23.435350"
     <<50, 52, 58, 48, 48, 58, 48, 48>>,  \* "24:00:00"
     <<49, 50, 58, 51, 52, 58, 53>>,  \* "12:34:5"
     <<49, 50, 58, 51, 52>>,  \* "12:34"
     <<120>>,  \* "x"
     <<>>}  \* ""

\* text payloads of a timetz column
text_timetz_payloads ==
    {<<50, 49, 58, 48, 54, 58, 49, 57, 43, 48, 55, 58, 48, 48>>,  \* "21:06:19+07:00"
     <<49, 50, 58, 51, 52, 58, 50, 51, 46, 52, 51, 53, 51, 53, 48, 43, 48, 53, 58, 48, 48>>,  \* "12:34:23.435350+05:00"
     <<49, 50, 58, 51, 52, 58, 53, 54>>,  \* "12:34:56"
     <<49, 50, 58, 51, 52, 58, 53, 54, 85, 84>>,  \* "12:34:56UT"
     <<49, 50, 58, 51, 52, 58, 53, 54, 45, 48, 53, 51, 48>>,  \* "12:34:56-0530"
     <<49, 50, 58, 51, 52, 58, 53, 54, 43, 49, 54>>,  \* "12:34:56+16"
     <<>>}  \* ""

\* text payloads of a timestamp column
text_timestamp_payloads ==
    {<<49, 57, 55, 55, 45, 48, 54, 45, 50, 49, 32, 50, 49, 58, 48, 54, 58, 49, 57>>,  \* "1977-06-21 21:06:19"
     <<50, 48, 50, 54, 45, 48, 50, 45, 48, 56, 32, 49, 50, 58, 51, 52, 58, 50, 51, 46, 52, 51, 53, 51, 53, 48>>,  \* "2026-02-08 12:34:23.435350"
     <<105, 110, 102, 105, 110, 105, 116, 121>>,  \* "infinity"
     <<45, 105, 110, 102, 105, 110, 105, 116, 121>>,  \* "-infinity"
     <<49, 57, 55, 55, 45, 48, 54, 45, 50, 49>>,  \* "1977-06-21"
     <<>>}  \* ""

\* text payloads of a timestamptz column
text_timestamptz_payloads ==
    {<<50, 48, 50, 54, 45, 48, 50, 45, 48, 56, 32, 50, 48, 58, 48, 51, 58, 48, 48, 43, 48, 48, 58, 48, 48>>,  \* "2026-02-08 20:03:00+00:00"
     <<50, 48, 50, 54, 45, 48, 50, 45, 48, 56, 32, 50, 48, 58, 48, 51, 58, 48, 48, 43, 48, 50>>,  \* "2026-02-08 20:03:00+02"
     <<50, 48, 50, 54, 45, 48, 50, 45, 48, 56, 32, 50, 48, 58, 48, 51, 58, 48, 48>>,  \* "2026-02-08 20:03:00"
     <<105, 110, 102, 105, 110, 105, 116, 121>>,  \* "infinity"
     <<50, 48, 58, 48, 51, 58, 48, 48, 43, 48, 50>>}  \* "20:03:00+02"

\* text payloads of a interval column
text_interval_payloads ==
    {<<49, 32, 121, 101, 97, 114, 32, 50, 32, 109, 111, 110, 115, 32, 51, 32, 100, 97, 121, 115, 32, 48, 52, 58, 48, 53, 58, 48, 54, 46, 48, 48, 48, 48, 48, 55>>,  \* "1 year 2 mons 3 days 04:05:06.000007"
     <<49, 32, 100, 97, 121>>,  \* "1 day"
     <<51, 32, 109, 111, 110, 115>>,  \* "3 mons"
     <<45, 48, 48, 58, 48, 48, 58, 48, 49>>,  \* "-00:00:01"
     <<49, 32, 100, 97, 121, 120>>,  \* "1 dayx"
     <<>>}  \* ""

\* binary payloads of an integer column
binary_int_payloads ==
    {<<>>,
     <<1>>,
     <<0, 1>>,
     <<255, 254>>,
     <<0, 0, 1>>,
     <<0, 0, 1, 0>>,
     <<255, 255, 255, 254>>,
     <<0, 0, 0, 0, 0, 0, 0, 1>>,
     <<255, 255, 255, 255, 255, 255, 255, 255>>,
     <<0, 0, 0, 0, 0, 0, 0, 0, 0>>}

\* binary payloads of a date column
binary_date_payloads ==
    {<<255, 255, 223, 219>>,
     <<0, 0, 0, 0>>,
     <<127, 255, 255, 255>>,
     <<128, 0, 0, 0>>,
     <<>>,
     <<0, 1>>,
     <<0, 0, 0, 0, 0, 0, 0, 0>>}

\* binary payloads of a time column
binary_time_payloads ==
    {<<0, 0, 0, 17, 176, 179, 136, 192>>,
     <<0, 0, 0, 0, 0, 0, 0, 0>>,
     <<>>,
     <<0, 0, 0, 1>>,
     <<0, 0, 0, 0, 0, 0, 0, 0, 0, 0, 0, 0>>}

\* binary payloads of a timetz column
binary_timetz_payloads ==
    {<<0, 0, 0, 10, 137, 233, 54, 86, 255, 255, 185, 176>>,
     <<0, 0, 0, 0, 0, 0, 0, 0, 0, 0, 0, 0>>,
     <<>>,
     <<0, 0, 0, 0, 0, 0, 0, 0>>,
     <<0, 0, 0, 0, 0, 0, 0, 0, 0, 0, 0, 0, 0, 0, 0, 0>>}

\* binary payloads of a timestamp column
binary_timestamp_payloads ==
    {<<0, 2, 237, 78, 2, 201, 214, 86>>,
     <<255, 255, 255, 255, 255, 255, 255, 255>>,
     <<127, 255, 255, 255, 255, 255, 255, 255>>,
     <<128, 0, 0, 0, 0, 0, 0, 0>>,
     <<>>,
     <<0, 0, 0, 0>>,
     <<0, 0, 0, 0, 0, 0, 0, 0, 0, 0, 0, 0>>}

\* binary payloads of a timestamptz column
binary_timestamptz_payloads ==
    {<<0, 2, 237, 78, 2, 201, 214, 86>>,
     <<0, 0, 0, 0, 0, 0, 0, 0>>,
     <<>>,
     <<0, 0, 0, 0>>}

\* binary payloads of a interval column
binary_interval_payloads ==
    {<<0, 0, 0, 0, 0, 0, 0, 1, 0, 0, 0, 1, 0, 0, 0, 1>>,
     <<0, 0, 0, 0, 0, 0, 0, 0, 0, 0, 0, 0, 0, 0, 0, 0>>,
     <<>>,
     <<0, 0, 0, 0, 0, 0, 0, 0>>,
     <<0, 0, 0, 0, 0, 0, 0, 0, 0, 0, 0, 0>>}

\* payloads of a column read into a string
string_payloads == {<<>>, <<97, 98, 99>>}

\* the targets of field_parse
codec_types == {"int16", "int32", "int64", "string"} \cup datetime_types

\* the payloads of a column that is not NULL, by target and format
payloads(T, fmt_code) ==
    CASE T \in {"int16", "int32", "int64"} ->
           (IF fmt_code = "text" THEN text_int_payloads ELSE binary_int_payloads)
      [] T = "string" -> string_payloads
      [] T = "date" ->
           (IF fmt_code = "text" THEN text_date_payloads ELSE binary_date_payloads)
      [] T = "time" ->
           (IF fmt_code = "text" THEN text_time_payloads ELSE binary_time_payloads)
      [] T = "timetz" ->
           (IF fmt_code = "text" THEN text_timetz_payloads ELSE binary_timetz_payloads)
      [] T = "timestamp" ->
           (IF fmt_code = "text" THEN text_timestamp_payloads
            ELSE binary_timestamp_payloads)
      [] T = "timestamptz" ->
           (IF fmt_code = "text" THEN text_timestamptz_payloads
            ELSE binary_timestamptz_payloads)
      [] T = "interval" ->
           (IF fmt_code = "text" THEN text_interval_payloads
            ELSE binary_interval_payloads)

\* the values of `to` before the call
outputs(T) ==
    CASE T \in {"int16", "int32", "int64"} -> {0, 7}
      [] T = "string" -> {<<120>>}
      [] T = "date" -> {sys_days(1)}
      [] T = "timetz" -> {pg_timetz(microseconds(1, 0), 60)}
      [] T = "interval" -> {pg_interval(1, 1, microseconds(1, 0))}
      [] T \in {"time", "timestamp", "timestamptz"} -> {microseconds(1, 0)}

InitCodec ==
    /\ NoConnection
    /\ types_ = <<>>
    /\ buffer_ = <<>>
    /\ autosync_ = TRUE
    /\ calls = <<>>
    /\ pc = "calling"
    /\ rs_arg = 0
    /\ rs_res = NoSetup
    /\ NoResponse
    /\ \E T \in codec_types, fmt_code \in {"text", "binary"} :
         \E type_oid \in admitted_oids(T),
            from \in {null_column} \cup {column(bytes) : bytes \in payloads(T, fmt_code)},
            to \in outputs(T) :
           args = [fn |-> "field_parse", T |-> T, from |-> from,
                   desc |-> field_description("c", type_oid, fmt_code), to |-> to]
    /\ ret = [ec |-> no_error]

\* field_parse<T>::call(from, desc, to) returns
call_field_parse ==
    /\ pc = "calling"
    /\ args.fn = "field_parse"
    /\ ret' = field_parse(args.T, args.from, args.desc, args.to)
    /\ pc' = "returned"
    /\ UNCHANGED <<connection_vars, request_vars, scan_vars, args, response_vars>>

NextCodec == call_field_parse

SpecCodec == InitCodec /\ [][NextCodec]_vars

\* field_parse has returned from a call with these arguments
Parsed(T, fmt_code) ==
    /\ pc = "returned"
    /\ args.fn = "field_parse"
    /\ args.T = T
    /\ args.desc.fmt_code = fmt_code

\* C16: for every supported non-nullable target type and every field description
\* (any OID admitted for the type, text or binary format), field_parse with an
\* absent payload returns unexpected_null and leaves the output value unchanged.
C16_AbsentPayload ==
    (pc = "returned" /\ args.fn = "field_parse" /\ ~args.from.has_value) =>
        /\ ret.ec = "unexpected_null"
        /\ ret.to = args.to

\* a NULL interval column in binary format read into a pg_interval
C16_Witness ==
    /\ Parsed("interval", "binary")
    /\ args.from = null_column
    /\ args.to = pg_interval(1, 1, microseconds(1, 0))
    /\ ret.ec = "unexpected_null"
    /\ ret.to = args.to

\* the size in bytes of the binary value of a column, by type OID
declared_size(type_oid) ==
    CASE type_oid = int2_oid -> 2
      [] type_oid = int4_oid -> 4
      [] type_oid = int8_oid -> 8
      [] type_oid = datetime_oid("date") -> 4
      [] type_oid = datetime_oid("time") -> 8
      [] type_oid = datetime_oid("timetz") -> 12
      [] type_oid = datetime_oid("timestamp") -> 8
      [] type_oid = datetime_oid("timestamptz") -> 8
      [] type_oid = datetime_oid("interval") -> 16

\* C17: for every binary field codec (int16, int32, int64 including reads of a
\* narrower integer column, date, time, timetz, timestamp, timestamptz,
\* interval), a payload whose length differs from the declared size of the
\* column's type yields protocol_value_error and leaves the output value exactly
\* as it was before the call.
C17_LengthSanity ==
    (/\ pc = "returned"
     /\ args.fn = "field_parse"
     /\ args.T # "string"
     /\ args.desc.fmt_code = "binary"
     /\ args.from.has_value
     /\ Len(args.from.data) # declared_size(args.desc.type_oid)) =>
        /\ ret.ec = "protocol_value_error"
        /\ ret.to = args.to

\* the non-whitespace bytes appended to an accepted text payload:
\* '-', '.', '1', ':', 'C', 'Z', 's', 'x'
appended_bytes == {45, 46, 49, 58, 67, 90, 115, 120}

\* C19: for every text codec (integers, date, time, timetz, timestamp,
\* timestamptz, interval) and every input it accepts, the input extended by any
\* single non-whitespace byte is rejected with extra_bytes or
\* protocol_value_error.
C19_ExtraBytesStrictness ==
    (/\ pc = "returned"
     /\ args.fn = "field_parse"
     /\ args.T # "string"
     /\ args.desc.fmt_code = "text"
     /\ args.from.has_value
     /\ ret.ec = no_error) =>
        \A b \in appended_bytes :
            field_parse(args.T, column(args.from.data \o <<b>>), args.desc, args.to).ec
                \in {"extra_bytes", "protocol_value_error"}

\* the kinds of client_errc
client_errc ==
    {"protocol_value_error", "extra_bytes", "unexpected_null", "incompatible_field_type",
     "field_not_found", "incompatible_response_type", "step_skipped", "exec_server_error"}

\* C20: every error code that a field codec can return (field_parse for any
\* target type, format and payload) is one of the eight kinds of the client
\* error taxonomy; no other error category or value reaches the handler's
\* result.
C20_TaxonomyOnly ==
    (pc = "returned" /\ args.fn = "field_parse" /\ ret.ec # no_error) =>
        ret.ec \in client_errc

------------------------------------------------------------------------------
(* detail::field_is_compatible called on its own *)

\* the targets field_is_compatible is specialized for
compatible_types == {"int16", "int32", "int64", "string", "date", "time", "timetz"}

\* the type OIDs of the columns: those of bool, int8, int2, int4, text, date,
\* time, timestamp, timestamptz, interval and timetz, and the 0 of an empty
\* field_description
type_oids == {0, 16, 20, 21, 23, 25, 1082, 1083, 1114, 1184, 1186, 1266}

InitCompatible ==
    /\ NoConnection
    /\ types_ = <<>>
    /\ buffer_ = <<>>
    /\ autosync_ = TRUE
    /\ calls = <<>>
    /\ pc = "calling"
    /\ rs_arg = 0
    /\ rs_res = NoSetup
    /\ NoResponse
    /\ \E T \in compatible_types, type_oid \in type_oids, fmt_code \in {"text", "binary"} :
         args = [fn |-> "field_is_compatible", T |-> T,
                 desc |-> field_description("c", type_oid, fmt_code)]
    /\ ret = [ec |-> no_error]

\* field_is_compatible<T>::call(desc) returns
call_field_is_compatible ==
    /\ pc = "calling"
    /\ args.fn = "field_is_compatible"
    /\ ret' = [ec |-> field_is_compatible(args.T, args.desc)]
    /\ pc' = "returned"
    /\ UNCHANGED <<connection_vars, request_vars, scan_vars, args, response_vars>>

NextCompatible == call_field_is_compatible

SpecCompatible == InitCompatible /\ [][NextCompatible]_vars

\* the admissible set of each target type, as the contract states it
admissible_set(T) ==
    CASE T = "int16" -> {21}
      [] T = "int32" -> {21, 23}
      [] T = "int64" -> {21, 23, 20}
      [] T = "string" -> type_oids
      [] T = "date" -> {1082}
      [] T = "time" -> {1083}
      [] T = "timetz" -> {1266}

\* C21: field_is_compatible returns success exactly when the column's type OID
\* is in the target type's admissible set (int16: {21}; int32: {21, 23}; int64:
\* {21, 23, 20}; string-assignable targets: every OID; date: {1082}; time:
\* {1083}; timetz: {1266}) and incompatible_field_type for every other OID.
C21_AdmissibleSets ==
    (pc = "returned" /\ args.fn = "field_is_compatible") =>
        ret.ec = IF args.desc.type_oid \in admissible_set(args.T)
                 THEN no_error ELSE "incompatible_field_type"

\* an int2 column read into a std::int64_t is compatible
C21_Witness ==
    /\ pc = "returned"
    /\ args.fn = "field_is_compatible"
    /\ args.T = "int64"
    /\ args.desc.type_oid = int2_oid
    /\ ret.ec = no_error

------------------------------------------------------------------------------
(* The two renderings of a date-time value, as the server sends them, and    *)
(* field_parse called on each of them                                        *)

\* n in decimal, and in two and in four digits
RECURSIVE decimal(_)
decimal(n) == IF n < 10 THEN <<48 + n>> ELSE decimal(n \div 10) \o <<48 + (n % 10)>>
two_digits(n) == <<48 + (n \div 10), 48 + (n % 10)>>
four_digits(n) == two_digits(n \div 100) \o two_digits(n % 100)

\* digits without their trailing zeros
RECURSIVE trim_zeros(_)
trim_zeros(digits) ==
    IF digits # <<>> /\ digits[Len(digits)] = 48
    THEN trim_zeros(SubSeq(digits, 1, Len(digits) - 1))
    ELSE digits

\* "YYYY-MM-DD"
date_text(v) == four_digits(v.year) \o <<45>> \o two_digits(v.month) \o <<45>> \o two_digits(v.day)

\* "HH:MM:SS" and the fraction of the second, if there is one
time_text(v) ==
    two_digits(v.hour) \o <<58>> \o two_digits(v.minute) \o <<58>> \o two_digits(v.second) \o
    (IF v.us = 0 THEN <<>>
     ELSE <<46>> \o trim_zeros(two_digits(v.us \div 10000) \o two_digits((v.us \div 100) % 100)
                               \o two_digits(v.us % 100)))

\* "+HH" or "-HH", and ":MM" when the minutes are not zero; zone is in seconds
\* east of UTC
zone_text(zone) ==
    LET a == IF zone < 0 THEN -zone ELSE zone IN
    <<IF zone < 0 THEN 45 ELSE 43>> \o two_digits(a \div 3600) \o
    (IF (a \div 60) % 60 = 0 THEN <<>> ELSE <<58>> \o two_digits((a \div 60) % 60))

\* "N unit" or "N units"
unit_text(n, unit) == decimal(n) \o <<32>> \o unit \o (IF n = 1 THEN <<>> ELSE <<115>>)

\* the parts of a sequence of texts that are not empty, joined by a space
RECURSIVE join(_)
join(texts) ==
    IF texts = <<>> THEN <<>>
    ELSE IF Head(texts) = <<>> THEN join(Tail(texts))
    ELSE IF join(Tail(texts)) = <<>> THEN Head(texts)
    ELSE Head(texts) \o <<32>> \o join(Tail(texts))

\* "Y years M mons D days HH:MM:SS": the fields that are zero are left out, the
\* time is kept when nothing else is there
interval_text(v) ==
    LET no_time == v.time.hour = 0 /\ v.time.minute = 0 /\ v.time.second = 0 /\ v.time.us = 0
        no_date == v.months = 0 /\ v.days = 0
    IN  join(<<IF v.months \div 12 = 0 THEN <<>> ELSE unit_text(v.months \div 12, unit_year),
               IF v.months % 12 = 0 THEN <<>> ELSE unit_text(v.months % 12, unit_mon),
               IF v.days = 0 THEN <<>> ELSE unit_text(v.days, unit_day),
               IF no_time /\ ~no_date THEN <<>> ELSE time_text(v.time)>>)

\* the text the server sends for the value v of type T
text_rendering(T, v) ==
    IF v.special = "infinity" THEN infinity_text
    ELSE IF v.special = "-infinity" THEN minus_infinity_text
    ELSE CASE T = "date" -> date_text(v)
           [] T = "time" -> time_text(v)
           [] T = "timetz" -> time_text(v) \o zone_text(v.zone)
           [] T = "timestamp" -> date_text(v.date) \o <<32>> \o time_text(v.time)
           [] T = "timestamptz" ->
                date_text(v.date) \o <<32>> \o time_text(v.time) \o zone_text(v.zone)
           [] T = "interval" -> interval_text(v)

\* the Julian day number of a calendar date
date2j(v) ==
    LET m == IF v.month > 2 THEN v.month + 1 ELSE v.month + 13
        y == IF v.month > 2 THEN v.year + 4800 ELSE v.year + 4799
        century == y \div 100
    IN  y * 365 - 32167 + y \div 4 - century + century \div 4 + (7834 * m) \div 256 + v.day

\* the Julian day number of 2000-01-01
postgres_epoch_jdate == 2451545

\* the days from 2000-01-01 to a calendar date
days_since_2000(v) == date2j(v) - postgres_epoch_jdate

\* the seconds since midnight of a time of day
seconds_of(v) == v.hour * 3600 + v.minute * 60 + v.second

\* the n low bytes of a count that is not negative, big-endian
RECURSIVE low_bytes(_, _)
low_bytes(count, n) ==
    IF n = 0 THEN <<>> ELSE low_bytes(count \div 256, n - 1) \o <<count % 256>>

\* a 32-bit count in two's complement, big-endian
int32_bytes(count) ==
    IF count >= 0 THEN low_bytes(count, 4)
    ELSE [i \in 1..4 |-> 255 - low_bytes(-count - 1, 4)[i]]

\* the n low bytes of the count sec * 1000000 + us that is not negative,
\* big-endian
RECURSIVE low_bytes_us(_, _, _)
low_bytes_us(sec, us, n) ==
    IF n = 0 THEN <<>>
    ELSE LET low == (sec % 256) * 1000000 + us IN
         low_bytes_us(sec \div 256, low \div 256, n - 1) \o <<low % 256>>

\* a 64-bit count of microseconds, sec * 1000000 + us with us in 0..999999, in
\* two's complement, big-endian
int64_bytes(sec, us) ==
    IF sec >= 0 THEN low_bytes_us(sec, us, 8)
    ELSE [i \in 1..8 |-> 255 - low_bytes_us(-sec - 1, 999999 - us, 8)[i]]

\* the bytes the server sends for the value v of type T: the end of the range of
\* the count stands for infinity, its start for -infinity
binary_rendering(T, v) ==
    IF v.special = "infinity"
    THEN <<127>> \o [i \in 1..(IF T = "date" THEN 3 ELSE 7) |-> 255]
    ELSE IF v.special = "-infinity"
    THEN <<128>> \o [i \in 1..(IF T = "date" THEN 3 ELSE 7) |-> 0]
    ELSE CASE T = "date" -> int32_bytes(days_since_2000(v))
           [] T = "time" -> int64_bytes(seconds_of(v), v.us)
           [] T = "timetz" -> int64_bytes(seconds_of(v), v.us) \o int32_bytes(-v.zone)
           [] T = "timestamp" ->
                int64_bytes(days_since_2000(v.date) * 86400 + seconds_of(v.time), v.time.us)
           [] T = "timestamptz" ->
                int64_bytes(days_since_2000(v.date) * 86400 + seconds_of(v.time) - v.zone,
                            v.time.us)
           [] T = "interval" ->
                int64_bytes(seconds_of(v.time), v.time.us) \o int32_bytes(v.days)
                    \o int32_bytes(v.months)

\* the values rendered
date_values ==
    [special : {"none"}, year : {1977, 2000, 2026}, month : {1, 2, 6, 12}, day : {1, 21, 28}]
time_values ==
    [special : {"none"}, hour : {0, 21}, minute : {6}, second : {19, 59},
     us : {0, 7, 435350}]
zones == {0, 7200, 25200, -19800}
infinities == {[special |-> "infinity"], [special |-> "-infinity"]}
values(T) ==
    CASE T = "date" -> date_values \cup infinities
      [] T = "time" -> time_values
      [] T = "timetz" ->
           {[special |-> "none", hour |-> t.hour, minute |-> t.minute, second |-> t.second,
             us |-> t.us, zone |-> z] : t \in time_values, z \in zones}
      [] T = "timestamp" ->
           [special : {"none"}, date : {d \in date_values : d.day = 21},
            time : {t \in time_values : t.second = 19}] \cup infinities
      [] T = "timestamptz" ->
           [special : {"none"}, date : {d \in date_values : d.day = 21},
            time : {t \in time_values : t.second = 19}, zone : zones] \cup infinities
      [] T = "interval" ->
           [special : {"none"}, months : {0, 1, 14}, days : {0, 1, 3},
            time : {t \in time_values : t.hour = 0 /\ t.second = 59}
                   \cup {[special |-> "none", hour |-> 0, minute |-> 0, second |-> 0,
                          us |-> 0]}]

\* field_parse has not been called on a rendering yet
not_called(to) == [ec |-> "not called", to |-> to, assert_failed |-> FALSE]

InitRender ==
    /\ NoConnection
    /\ types_ = <<>>
    /\ buffer_ = <<>>
    /\ autosync_ = TRUE
    /\ calls = <<>>
    /\ pc = "calling"
    /\ rs_arg = 0
    /\ rs_res = NoSetup
    /\ NoResponse
    /\ \E T \in datetime_types :
         \E v \in values(T), to \in outputs(T) :
           /\ args = [fn |-> "parse_rendering", T |-> T, v |-> v, to |-> to]
           /\ ret = [text |-> not_called(to), binary |-> not_called(to)]

\* field_parse<T>::call on the text the server sends for args.v
call_parse_text ==
    /\ pc = "calling"
    /\ args.fn = "parse_rendering"
    /\ ret.text.ec = "not called"
    /\ ret' = [ret EXCEPT !.text =
                  field_parse(args.T, column(text_rendering(args.T, args.v)),
                              field_description("c", datetime_oid(args.T), "text"),
                              args.to)]
    /\ pc' = IF ret.binary.ec = "not called" THEN "calling" ELSE "returned"
    /\ UNCHANGED <<connection_vars, request_vars, scan_vars, args, response_vars>>

\* field_parse<T>::call on the bytes the server sends for args.v
call_parse_binary ==
    /\ pc = "calling"
    /\ args.fn = "parse_rendering"
    /\ ret.binary.ec = "not called"
    /\ ret' = [ret EXCEPT !.binary =
                  field_parse(args.T, column(binary_rendering(args.T, args.v)),
                              field_description("c", datetime_oid(args.T), "binary"),
                              args.to)]
    /\ pc' = IF ret.text.ec = "not called" THEN "calling" ELSE "returned"
    /\ UNCHANGED <<connection_vars, request_vars, scan_vars, args, response_vars>>

NextRender ==
    \/ call_parse_text
    \/ call_parse_binary

SpecRender == InitRender /\ [][NextRender]_vars

\* C18: for every date-time type (date, time, timetz, timestamp, timestamptz,
\* interval) and every value representable in both wire formats, the special
\* values infinity and -infinity of date and timestamp included, parsing the
\* value's canonical text rendering yields the same decoded value as parsing its
\* canonical binary rendering.
C18_TextBinaryEquivalence ==
    (pc = "returned" /\ args.fn = "parse_rendering") =>
        /\ ret.text.ec = no_error
        /\ ret.binary.ec = no_error
        /\ ret.text.to = ret.binary.to

------------------------------------------------------------------------------
(* The text parsers of types/datetime.hpp called on their own, on texts     *)
(* written from field values                                                *)

\* n in decimal, in at least w digits
padded(n, w) == [i \in 1..(w - Len(decimal(n))) |-> 48] \o decimal(n)

\* the value of a run of decimal digits
RECURSIVE digits_value(_)
digits_value(digits) ==
    IF digits = <<>> THEN 0
    ELSE 10 * digits_value(SubSeq(digits, 1, Len(digits) - 1)) + (digits[Len(digits)] - 48)

\* "YYYY-MM-DD" of a calendar date [year, month, day]; a year of more than
\* four digits is written in full
civil_text(d) == padded(d.year, 4) \o <<45>> \o padded(d.month, 2) \o <<45>> \o padded(d.day, 2)

\* "HH:MM:SS" of a time of day [hour, minute, second, fraction], and
\* ".ffffff" when its fraction, a run of digits, is not empty
clock_text(t) ==
    padded(t.hour, 2) \o <<58>> \o padded(t.minute, 2) \o <<58>> \o padded(t.second, 2) \o
    (IF t.fraction = <<>> THEN <<>> ELSE <<46>> \o t.fraction)

\* the offset [sign, hours, minutes, seconds, form] of a zone, as "+HH",
\* "+HH:MM", "+HHMM" or "+HH:MM:SS"
offset_text(z) ==
    <<IF z.sign < 0 THEN 45 ELSE 43>> \o two_digits(z.hours) \o
    CASE z.form = "hh" -> <<>>
      [] z.form = "hh:mm" -> <<58>> \o two_digits(z.minutes)
      [] z.form = "hhmm" -> two_digits(z.minutes)
      [] z.form = "hh:mm:ss" ->
           <<58>> \o two_digits(z.minutes) \o <<58>> \o two_digits(z.seconds)

\* the seconds east of UTC of an offset, and the seconds since midnight of a
\* time of day
zone_seconds(z) == z.sign * (z.hours * 3600 + z.minutes * 60 + z.seconds)
clock_seconds(t) == t.hour * 3600 + t.minute * 60 + t.second

\* the microseconds a fraction of a second stands for: its first six digits,
\* zeros standing for the digits it does not have
fraction_us(fraction) ==
    digits_value(SubSeq(fraction \o <<48, 48, 48, 48, 48, 48>>, 1, 6))

\* the dates, times of day and offsets of the timestamps with time zone; the
\* server writes the seconds of an offset that has them (the local mean time
\* of a zone), and years up to 294276
tstz_dates ==
    {[year |-> 2026, month |-> 2, day |-> 8], [year |-> 2000, month |-> 1, day |-> 1],
     [year |-> 1999, month |-> 12, day |-> 31], [year |-> 2024, month |-> 2, day |-> 29],
     [year |-> 1936, month |-> 6, day |-> 30], [year |-> 67562, month |-> 2, day |-> 8]}
tstz_times ==
    {[hour |-> 0, minute |-> 0, second |-> 0, fraction |-> <<>>],
     [hour |-> 20, minute |-> 3, second |-> 0, fraction |-> <<>>],
     [hour |-> 23, minute |-> 59, second |-> 59, fraction |-> <<53>>],
     [hour |-> 12, minute |-> 34, second |-> 23, fraction |-> <<52, 51, 53, 51, 53>>]}
tstz_zones ==
    [sign : {1, -1}, hours : {0, 2, 15}, minutes : {0}, seconds : {0}, form : {"hh"}]
    \cup [sign : {1, -1}, hours : {0, 5, 15}, minutes : {0, 30, 59}, seconds : {0},
          form : {"hh:mm", "hhmm"}]
    \cup [sign : {1, -1}, hours : {0, 4}, minutes : {19, 56}, seconds : {2, 32},
          form : {"hh:mm:ss"}]

\* the calls of parse_text_timestamptz
TimestamptzCalls ==
    {[fn |-> "parse_text_timestamptz",
      from |-> civil_text(d) \o <<32>> \o clock_text(t) \o offset_text(z),
      to |-> microseconds(1, 0), date |-> d, time |-> t, zone |-> z] :
        d \in tstz_dates, t \in tstz_times, z \in tstz_zones}

\* the hour, minute and second fields of the time texts, as they are written:
\* "00", "12", "23", "24", "25", "-1", "2147483648"; "00", "34", "59", "60",
\* "2147483648"; "00", "56", "59", "60", "2147483648"
hour_texts ==
    {<<48, 48>>, <<49, 50>>, <<50, 51>>, <<50, 52>>, <<50, 53>>, <<45, 49>>,
     <<50, 49, 52, 55, 52, 56, 51, 54, 52, 56>>}
minute_texts ==
    {<<48, 48>>, <<51, 52>>, <<53, 57>>, <<54, 48>>, <<50, 49, 52, 55, 52, 56, 51, 54, 52, 56>>}
second_texts ==
    {<<48, 48>>, <<53, 54>>, <<53, 57>>, <<54, 48>>, <<50, 49, 52, 55, 52, 56, 51, 54, 52, 56>>}

\* the fractions of the time texts, of 0 to 11 digits: none, "5", "0",
\* "000000", "435350", "000007", "1234567", "999999999", "0000000001",
\* "2147483647", "2147483648", "9999999999", "00000000000"
fraction_texts ==
    {<<>>, <<53>>, <<48>>, <<48, 48, 48, 48, 48, 48>>, <<52, 51, 53, 51, 53, 48>>,
     <<48, 48, 48, 48, 48, 55>>, <<49, 50, 51, 52, 53, 54, 55>>,
     <<57, 57, 57, 57, 57, 57, 57, 57, 57>>, <<48, 48, 48, 48, 48, 48, 48, 48, 48, 49>>,
     <<50, 49, 52, 55, 52, 56, 51, 54, 52, 55>>, <<50, 49, 52, 55, 52, 56, 51, 54, 52, 56>>,
     <<57, 57, 57, 57, 57, 57, 57, 57, 57, 57>>,
     <<48, 48, 48, 48, 48, 48, 48, 48, 48, 48, 48>>}

\* "HH:MM:SS" of written fields, and ".f" when the fraction is not empty
fields_text(t) ==
    t.hour \o <<58>> \o t.minute \o <<58>> \o t.second \o
    (IF t.fraction = <<>> THEN <<>> ELSE <<46>> \o t.fraction)

\* the calls of parse_text_time
TimeCalls ==
    {[fn |-> "parse_text_time", from |-> fields_text(t), to |-> microseconds(1, 0), time |-> t] :
        t \in [hour : hour_texts, minute : minute_texts, second : second_texts,
               fraction : fraction_texts]}

\* the year, month and day fields of the date texts, as they are written:
\* "2024", "2023", "0044", "0045", "67562"; "01", "02", "12", "00", "13",
\* "257", "268", "-255", "2147483648"; "01", "28", "29", "30", "31", "00",
\* "32", "257", "285"
year_texts ==
    {<<50, 48, 50, 52>>, <<50, 48, 50, 51>>, <<48, 48, 52, 52>>, <<48, 48, 52, 53>>,
     <<54, 55, 53, 54, 50>>}
month_texts ==
    {<<48, 49>>, <<48, 50>>, <<49, 50>>, <<48, 48>>, <<49, 51>>, <<50, 53, 55>>,
     <<50, 54, 56>>, <<45, 50, 53, 53>>, <<50, 49, 52, 55, 52, 56, 51, 54, 52, 56>>}
day_texts ==
    {<<48, 49>>, <<50, 56>>, <<50, 57>>, <<51, 48>>, <<51, 49>>, <<48, 48>>, <<51, 50>>,
     <<50, 53, 55>>, <<50, 56, 53>>}

\* "YYYY-MM-DD" of written fields, and " BC" behind it for a year before
\* Christ
date_fields_text(d) ==
    d.year \o <<45>> \o d.month \o <<45>> \o d.day \o (IF d.bc THEN <<32, 66, 67>> ELSE <<>>)

\* the calls of parse_text_date
DateCalls ==
    {[fn |-> "parse_text_date", from |-> date_fields_text(d), to |-> sys_days(1), date |-> d] :
        d \in [year : year_texts, month : month_texts, day : day_texts, bc : BOOLEAN]}

\* the most tokens of an interval text
MaxIntervalTokens == 3

\* the tokens of the interval texts: "<integer> <unit>" with the units year,
\* mons, days, hour, minutes, second and week, and time parts with and without
\* a sign; the server writes the hours of a time part beyond 24 ("30:00:00")
interval_units ==
    {unit_year, unit_mon \o <<115>>, unit_day \o <<115>>, unit_hour, unit_minute \o <<115>>,
     unit_second, <<119, 101, 101, 107>>}
unit_tokens ==
    [kind : {"unit"}, value : {1, -2}, unit : interval_units, sign : {1},
     time : {[hour |-> 0, minute |-> 0, second |-> 0, fraction |-> <<>>]}]
time_tokens ==
    {[kind |-> "time", value |-> 0, unit |-> <<>>, sign |-> sign, time |-> time] :
        sign \in {1, -1},
        time \in {[hour |-> 4, minute |-> 5, second |-> 6, fraction |-> <<48, 48, 48, 48, 48, 55>>],
                  [hour |-> 30, minute |-> 0, second |-> 0, fraction |-> <<>>]}}
interval_tokens == unit_tokens \cup time_tokens

\* a token as it is written: "-2 mons", "04:05:06.000007", "-30:00:00"
token_text(k) ==
    IF k.kind = "unit"
    THEN (IF k.value < 0 THEN <<45>> \o decimal(-k.value) ELSE decimal(k.value))
             \o <<32>> \o k.unit
    ELSE (IF k.sign < 0 THEN <<45>> ELSE <<>>) \o clock_text(k.time)

\* the calls of parse_text_interval: 1 to MaxIntervalTokens tokens with a space
\* in between
IntervalCalls ==
    {[fn |-> "parse_text_interval",
      from |-> join([i \in 1..Len(tokens) |-> token_text(tokens[i])]),
      to |-> pg_interval(1, 1, microseconds(1, 0)), tokens |-> tokens] :
        tokens \in SeqsUpTo(interval_tokens, MaxIntervalTokens) \ {<<>>}}

\* the calls of the text parsers
TextCalls == TimestamptzCalls \cup TimeCalls \cup DateCalls \cup IntervalCalls

\* the text parser named fn
parse_text(fn, from, to) ==
    CASE fn = "parse_text_timestamptz" -> parse_text_timestamptz(from, to)
      [] fn = "parse_text_time" -> parse_text_time(from, to)
      [] fn = "parse_text_date" -> parse_text_date(from, to)
      [] fn = "parse_text_interval" -> parse_text_interval(from, to)

InitText ==
    /\ NoConnection
    /\ types_ = <<>>
    /\ buffer_ = <<>>
    /\ autosync_ = TRUE
    /\ calls = <<>>
    /\ pc = "calling"
    /\ rs_arg = 0
    /\ rs_res = NoSetup
    /\ NoResponse
    /\ args \in TextCalls
    /\ ret = [ec |-> no_error]

\* a text parser returns
call_text_parser ==
    /\ pc = "calling"
    /\ args \in TextCalls
    /\ ret' = parse_text(args.fn, args.from, args.to)
    /\ pc' = "returned"
    /\ UNCHANGED <<connection_vars, request_vars, scan_vars, args, response_vars>>

NextText == call_text_parser

SpecText == InitText /\ [][NextText]_vars

\* the text parser fn has returned
TextParsed(fn) == pc = "returned" /\ args.fn = fn

\* C31: for every valid date, time of day and timezone offset,
\* parse_text_timestamptz succeeds and stores the UTC instant, the local date
\* and time less the offset: the stored count plus the offset is the local
\* time of day on the local date (so two texts of one instant give equal
\* values and an offset of +00 gives the local date and time unchanged).
C31_StoresUtcInstant ==
    TextParsed("parse_text_timestamptz") =>
        /\ ret.ec = no_error
        /\ ret.to.special = "none"
        /\ (ret.to.sec + zone_seconds(args.zone) - clock_seconds(args.time)) % 86400 = 0
        /\ (ret.to.sec + zone_seconds(args.zone) - clock_seconds(args.time)) \div 86400
             = days_since_2000(args.date) + pg_epoch.days
        /\ ret.to.us = fraction_us(args.time.fraction)

\* the written field is a decimal number in lo..hi
field_in(text, lo, hi) ==
    /\ text # <<>>
    /\ Len(text) <= 9
    /\ \A i \in 1..Len(text) : IsDigit(text[i])
    /\ digits_value(text) \in lo..hi

\* the fields of a time text name a time of day: 00:00:00 to 23:59:59 with any
\* fraction, or 24:00:00 with a fraction of no microsecond
time_fields_ok(t) ==
    /\ field_in(t.hour, 0, 24) /\ field_in(t.minute, 0, 59) /\ field_in(t.second, 0, 59)
    /\ digits_value(t.hour) = 24 =>
          (digits_value(t.minute) = 0 /\ digits_value(t.second) = 0
             /\ fraction_us(t.fraction) = 0)

\* C32: for a time text with a fractional part of n >= 1 digits, the decoded
\* microsecond component is the fraction right-padded with zeros to 6 digits
\* when n <= 6 and its first 6 digits when n > 6, for every n and every digit
\* string: no digit count causes an error or a wrong value.
C32_FractionScaling ==
    (TextParsed("parse_text_time") /\ time_fields_ok(args.time) /\ args.time.fraction # <<>>)
        => /\ ret.ec = no_error
           /\ ret.to.us = fraction_us(args.time.fraction)

\* C33: the time text parser accepts HH:MM:SS[.f] only when 0 <= HH <= 24,
\* 0 <= MM <= 59 and 0 <= SS <= 59, and HH = 24 only when MM, SS and the
\* fraction are all zero; every other field value is rejected with
\* protocol_value_error and the output is left unchanged; an accepted input
\* decodes to HH hours, MM minutes, SS seconds and the fraction.
C33_TimeFieldRanges ==
    TextParsed("parse_text_time") =>
        /\ ret.ec = no_error =>
              /\ time_fields_ok(args.time)
              /\ ret.to = microseconds(digits_value(args.time.hour) * 3600
                                         + digits_value(args.time.minute) * 60
                                         + digits_value(args.time.second),
                                       fraction_us(args.time.fraction))
        /\ ~time_fields_ok(args.time) =>
              (ret.ec = "protocol_value_error" /\ ret.to = args.to)

\* the days of month m of the year y of the proleptic Gregorian calendar
gregorian_days(y, m) ==
    IF m = 2 THEN (IF y % 4 = 0 /\ (y % 100 # 0 \/ y % 400 = 0) THEN 29 ELSE 28)
    ELSE IF m \in {4, 6, 9, 11} THEN 30 ELSE 31

\* the astronomical year of a written date: 1 - year before Christ
written_year(d) == IF d.bc THEN 1 - digits_value(d.year) ELSE digits_value(d.year)

\* the month of a written date is one of the twelve, and its day exists in
\* that month of its year
month_exists(d) == field_in(d.month, 1, 12)
day_exists(d) ==
    /\ month_exists(d)
    /\ field_in(d.day, 1, gregorian_days(written_year(d), digits_value(d.month)))

\* C34: parse_text_date succeeds only on inputs whose three decimal fields
\* form a valid proleptic Gregorian calendar date, the year taken as 1 - year
\* under the BC suffix; every input whose month is outside 1..12 or whose day
\* does not exist in that month and year, for any integer field value, is
\* rejected with protocol_value_error.
C34_OnlyCalendarDates ==
    TextParsed("parse_text_date") =>
        /\ ret.ec = no_error => day_exists(args.date)
        /\ ~day_exists(args.date) => ret.ec = "protocol_value_error"

\* what one token adds to the months, the days, the seconds and the
\* microseconds of an interval
token_months(k) ==
    IF k.kind = "unit" /\ k.unit = unit_year THEN 12 * k.value
    ELSE IF k.kind = "unit" /\ k.unit = unit_mon \o <<115>> THEN k.value
    ELSE 0
token_days(k) == IF k.kind = "unit" /\ k.unit = unit_day \o <<115>> THEN k.value ELSE 0
token_seconds(k) ==
    IF k.kind = "time" THEN k.sign * clock_seconds(k.time)
    ELSE IF k.unit = unit_hour THEN 3600 * k.value
    ELSE IF k.unit = unit_minute \o <<115>> THEN 60 * k.value
    ELSE IF k.unit = unit_second THEN k.value
    ELSE 0
token_us(k) == IF k.kind = "time" THEN k.sign * fraction_us(k.time.fraction) ELSE 0

\* the sum of what add(k) gives over the tokens
RECURSIVE months_of(_)
months_of(tokens) ==
    IF tokens = <<>> THEN 0 ELSE token_months(Head(tokens)) + months_of(Tail(tokens))
RECURSIVE days_of(_)
days_of(tokens) ==
    IF tokens = <<>> THEN 0 ELSE token_days(Head(tokens)) + days_of(Tail(tokens))
RECURSIVE seconds_in(_)
seconds_in(tokens) ==
    IF tokens = <<>> THEN 0 ELSE token_seconds(Head(tokens)) + seconds_in(Tail(tokens))
RECURSIVE us_in(_)
us_in(tokens) ==
    IF tokens = <<>> THEN 0 ELSE token_us(Head(tokens)) + us_in(Tail(tokens))

\* a token names a unit outside year, mon, day, hour, minute, second
unknown_unit(k) == k.kind = "unit" /\ k.unit = <<119, 101, 101, 107>>

\* C35: for every input made of whitespace-separated "<integer> <unit>" tokens
\* and optionally signed HH:MM:SS[.f] time parts, parse_text_interval returns
\* months = 12 * (the year values) + (the mon values), days = the day values
\* and microseconds = the signed sum of the hour, minute and second values and
\* of the time parts; an input with a unit outside the allowed set is rejected
\* with protocol_value_error.
C35_IntervalSums ==
    TextParsed("parse_text_interval") =>
        IF \E i \in 1..Len(args.tokens) : unknown_unit(args.tokens[i])
        THEN ret.ec = "protocol_value_error"
        ELSE /\ ret.ec = no_error
             /\ ret.to.months = months_of(args.tokens)
             /\ ret.to.days = days_of(args.tokens)
             /\ ret.to.time =
                   microseconds(seconds_in(args.tokens) + us_in(args.tokens) \div 1000000,
                                us_in(args.tokens) % 1000000)

------------------------------------------------------------------------------
(* Properties of the request builder, under SpecRequest *)

\* s is a prefix of t
IsPrefix(s, t) == Len(s) <= Len(t) /\ SubSeq(t, 1, Len(s)) = s

\* the tag whose message_type byte is b
TagOfByte(b) == CHOOSE t \in request_message_type : message_type(t) = b

\* one frame per tag, and the i-th frame is of the i-th tag's type
FramesMatchTags ==
    /\ Len(buffer_) = Len(types_)
    /\ \A i \in 1..Len(types_) : TagOfByte(buffer_[i].message_type) = types_[i]

\* C12: after any sequence of add and add_* calls, failed ones included, the
\* buffer holds as many frames as there are tags, the i-th tag names the type
\* of the i-th frame, and every call keeps the frames and tags stored before
\* it as a prefix.
C12_FramesMatchTags ==
    /\ [](FramesMatchTags)
    /\ [][IsPrefix(types_, types_') /\ IsPrefix(buffer_, buffer_')]_vars

\* a successful add_prepare, then an add_query whose Bind did not serialize:
\* three frames and three tags, the first two those of the first call
C12_Witness ==
    /\ calls = <<(<<"add_prepare", TRUE, 0>>), (<<"add_query", TRUE, 2>>)>>
    /\ types_ = <<"parse", "sync", "parse">>
    /\ Len(buffer_) = 3
    /\ buffer_[3].message_type = "P"

\* this step is a call that added messages and ended with an exception
CallFailed ==
    /\ Len(calls') = Len(calls) + 1
    /\ calls'[Len(calls')][3] # 0

\* C13: when serialization fails during an add or add_* call, the byte buffer
\* and the tag vector are exactly as before the call, also for the helpers
\* that append several messages.
C13_StrongGuarantee ==
    [][CallFailed => (buffer_' = buffer_ /\ types_' = types_)]_vars

\* the step is a call of the member function `name` that returned normally
Returned(name) ==
    /\ Len(calls') = Len(calls) + 1
    /\ calls'[Len(calls')] = <<name, autosync_, 0>>

\* the tags and the frames the step appended
AppendedTags == SubSeq(types_', Len(types_) + 1, Len(types_'))
AppendedFrames == SubSeq(buffer_', Len(buffer_) + 1, Len(buffer_'))

\* the step appended exactly the tags `tags`, and their frames
Appended(tags) ==
    /\ IsPrefix(types_, types_') /\ IsPrefix(buffer_, buffer_')
    /\ AppendedTags = tags
    /\ AppendedFrames = [i \in 1..Len(tags) |-> [message_type |-> message_type(tags[i])]]

\* <<Sync>> if the autosync flag is set when the call is made
SyncIfAutosync == IF autosync_ THEN <<"sync">> ELSE <<>>

\* C14: add_prepare, add_describe_statement, add_describe_portal,
\* add_close_statement and add_close_portal append their one tag (Parse,
\* Describe, Close) and then a Sync exactly when autosync is set at the call;
\* add_simple_query and add(msg) append one tag and no Sync; set_autosync
\* changes neither the buffer nor the tags.
C14_HelperTags ==
    [][/\ Returned("add_prepare") => Appended(<<"parse">> \o SyncIfAutosync)
       /\ Returned("add_describe_statement") => Appended(<<"describe">> \o SyncIfAutosync)
       /\ Returned("add_describe_portal") => Appended(<<"describe">> \o SyncIfAutosync)
       /\ Returned("add_close_statement") => Appended(<<"close">> \o SyncIfAutosync)
       /\ Returned("add_close_portal") => Appended(<<"close">> \o SyncIfAutosync)
       /\ Returned("add_simple_query") => Appended(<<"query">>)
       /\ \A tag \in request_message_type :
             Returned("add " \o tag) => Appended(<<tag>>)
       /\ autosync_' # autosync_ => (buffer_' = buffer_ /\ types_' = types_)]_vars

\* add_close_portal with autosync set, set_autosync(false), then add_prepare:
\* Close and Sync, then Parse alone
C14_Witness ==
    /\ calls = <<(<<"add_close_portal", TRUE, 0>>), (<<"add_prepare", FALSE, 0>>)>>
    /\ types_ = <<"close", "sync", "parse">>
    /\ ~autosync_


------------------------------------------------------------------------------
(* Properties of the result-set handler, under SpecResultset *)

\* the message of the on_message call that this step is
Received == delivered'[Len(delivered')]

\* this step is an on_message call after which the program runs on
MessageTaken ==
    /\ Len(handlers) = 1
    /\ delivered' # delivered
    /\ pc' # "aborted"

\* C23: the result-set handler's state changes only by the two transitions
\* parsing_meta -> parsing_data (on RowDescription) and parsing_data -> done (on
\* CommandComplete or PortalSuspended); ParseComplete, BindComplete, DataRow and
\* MessageSkipped never change the state, and the state never moves backwards
\* under any message sequence.
C23_StateTransitions ==
    [][(MessageTaken /\ handlers'[1].state_ # into_vec.state_)
          => \/ /\ into_vec.state_ = "parsing_meta"
                /\ handlers'[1].state_ = "parsing_data"
                /\ Received.type = "row_description"
             \/ /\ into_vec.state_ = "parsing_data"
                /\ handlers'[1].state_ = "done"
                /\ Received.type \in {"command_complete", "portal_suspended"}]_vars

\* the last server column with this name: its index in meta, from 1
LastColumn(meta, name) ==
    CHOOSE j \in 1..Len(meta) :
        /\ meta[j].name = name
        /\ \A k \in (j + 1)..Len(meta) : meta[k].name # name

\* the error a RowDescription is to leave in a handler that holds none
MetadataError(meta) ==
    IF \E i \in 1..row_size : \A j \in 1..Len(meta) : meta[j].name # row_name_table[i]
    THEN "field_not_found"
    ELSE IF \E i \in 1..row_size :
               meta[LastColumn(meta, row_name_table[i])].type_oid
                   \notin admissible_set(row_field_types[i])
    THEN "incompatible_field_type"
    ELSE no_error

\* C24: after a RowDescription is received in parsing_meta the handler is in
\* parsing_data whether or not an error was found; if no error was recorded
\* before, the recorded error is field_not_found when the position map is
\* incomplete, otherwise the incompatible_field_type of the first declared
\* field (in declaration order) whose is_compatible check fails, otherwise none.
C24_RowDescriptionOutcome ==
    [][(/\ MessageTaken
        /\ Received.type = "row_description"
        /\ into_vec.state_ = "parsing_meta")
          => (/\ handlers'[1].state_ = "parsing_data"
              /\ into_vec.err_.code = no_error =>
                    handlers'[1].err_ =
                        extended_error(MetadataError(Received.field_descriptions), no_diag))]_vars

\* a RowDescription whose column id is an int8 came first: the handler reads
\* rows from now on and holds incompatible_field_type
C24_Witness ==
    /\ delivered = <<id_incompatible_description>>
    /\ into_vec.state_ = "parsing_data"
    /\ into_vec.err_ = extended_error("incompatible_field_type", no_diag)
    /\ pc = "routing"

\* C25: when the handler has no recorded error, an ErrorResponse makes it
\* record the code exec_server_error together with the structured diagnostic
\* fields of that message, and a MessageSkipped makes it record step_skipped
\* with an empty diagnostic.
C25_ServerErrorAndSkip ==
    [][(MessageTaken /\ into_vec.err_.code = no_error)
          => (/\ Received.type = "error_response" =>
                    handlers'[1].err_ = extended_error("exec_server_error", Received.diag)
              /\ Received.type = "message_skipped" =>
                    handlers'[1].err_ = extended_error("step_skipped", no_diag))]_vars

\* rows were being read without error when the server's error 23505 came
C25_Witness ==
    /\ delivered = <<accepted_description, row_12_7, error_response("23505")>>
    /\ into_vec.err_ = extended_error("exec_server_error", "23505")
    /\ into_vec.vec = <<(<<7, 12>>)>>
    /\ pc = "routing"

\* C26: an ErrorResponse received by a result-set handler, in parsing_meta or in
\* parsing_data, terminates the handler: after it the handler's state is done.
C26_ErrorResponseTerminates ==
    [][(/\ MessageTaken
        /\ Received.type = "error_response"
        /\ into_vec.state_ \in {"parsing_meta", "parsing_data"})
          => handlers'[1].state_ = "done"]_vars

\* C27: when the region of a result-set handler receives a second
\* RowDescription (a simple Query holding several statements produces several
\* RowDescription / CommandComplete pairs), the handler records
\* incompatible_response_type instead of failing its state assertion.
C27_SecondRowDescription ==
    [][(/\ Len(handlers) = 1
        /\ delivered' # delivered
        /\ Received.type = "row_description"
        /\ into_vec.state_ # "parsing_meta")
          => (/\ pc' # "aborted"
              /\ ~asserts_off'
              /\ into_vec.err_.code = no_error =>
                    handlers'[1].err_.code = "incompatible_response_type")]_vars

\* the messages are the start of an answer of the server to one Query:
\* RowDescription, DataRows and CommandComplete for a statement that returns
\* rows; CommandComplete alone; EmptyQueryResponse; ErrorResponse
QueryAnswer(msgs) ==
    \/ /\ msgs[1].type = "row_description"
       /\ \A i \in 2..Len(msgs) :
             \/ msgs[i].type = "data_row"
             \/ i = Len(msgs) /\ msgs[i].type = "command_complete"
    \/ /\ Len(msgs) = 1
       /\ msgs[1].type \in {"command_complete", "empty_query_response", "error_response"}

\* C36: for every message stream the server may legally send in answer to a
\* region that is a single Query tag (RowDescription, DataRows,
\* CommandComplete; CommandComplete alone; EmptyQueryResponse; ErrorResponse)
\* the result-set handler processes every message without failing any of its
\* state assertions.
C36_QueryAnswersPassAssertions ==
    [][(/\ Len(handlers) = 1
        /\ delivered' # delivered
        /\ QueryAnswer(delivered'))
          => (pc' # "aborted" /\ ~asserts_off')]_vars

------------------------------------------------------------------------------
(* Properties of the decoding of DataRows, under SpecHandler *)

\* this step is an on_message call with a DataRow in which the handler runs
\* field_parse over its declared fields: the program runs on and the handler
\* held no error
RowDecoded ==
    /\ MessageTaken
    /\ Received.type = "data_row"
    /\ into_vec.err_.code = no_error

\* the position map of the handler is total and the column description of
\* each declared field has passed the field's is_compatible check
MapCheckedAndTotal(pos_map) ==
    /\ pos_map # indeterminate
    /\ \A i \in 1..row_size :
          /\ pos_map[i].db_index # invalid_pos
          /\ field_is_compatible(row_field_types[i], pos_map[i].descr) = no_error

\* C37: whenever the result-set handler invokes field_parse for a declared
\* field while decoding a DataRow, the position map is total and that field's
\* is_compatible check has succeeded on the very column description passed to
\* field_parse; hence the type-OID assertions inside field_parse never fail
\* and the invalid index is never used to access a row.
C37_ParseOnlyCheckedFields ==
    [][RowDecoded => /\ MapCheckedAndTotal(into_vec.pos_map_)
                     /\ ~parse_members(into_vec.pos_map_, Received.columns, 0,
                                       no_error, empty_row, FALSE).asserted]_vars

\* C38: for every DataRow the result-set handler decodes, also one that
\* carries fewer columns than the preceding RowDescription, every position-map
\* index used to read the row is below the row's column count, or the
\* mismatch is recorded as an error value in the handler's result; no
\* exception leaves on_message.
C38_ShortRowRecorded ==
    [][(RowDecoded /\ MapCheckedAndTotal(into_vec.pos_map_))
          => /\ pc' = "routing"
             /\ \/ \A i \in 1..row_size :
                      into_vec.pos_map_[i].db_index < Len(Received.columns)
                \/ handlers'[1].err_.code # no_error]_vars

------------------------------------------------------------------------------
(* One response object used for one exec after another: set up, routed to,  *)
(* and set up again, under SpecReuse                                        *)

MaxReuseHandlers == 2
MaxReuseMsgs == 3

\* the number of on_message calls the handlers hs have had so far
RECURSIVE routed(_)
routed(hs) ==
    IF hs = <<>> THEN 0 ELSE Len(Head(hs).msgs) + routed(Tail(hs))

\* response::setup(req, 0) on a response whose exec has completed: offsets_
\* is written again and current_ is left as it is; the offsets of the next
\* exec's messages start over
setup_again(oobs) ==
    /\ pc = "completed"
    /\ delivered # <<>>
    /\ LET r == setup_loop(handlers, types_, 0, 0, offsets_, <<>>, oobs) IN
         /\ setup_res' = r.res
         /\ offsets_' = r.offsets
         /\ setup_calls' = r.log
         /\ pc' = IF r.fault THEN "setup_fault"
                  ELSE IF r.res.ec # no_error THEN "setup_failed"
                  ELSE "routing"
    /\ setup_arg' = 0
    /\ last_offset' = 0
    /\ delivered' = <<>>
    /\ UNCHANGED <<connection_vars, request_vars, scan_vars, call_vars, handlers, current_,
                   exec_result, asserts_off>>

\* request req; req.add_simple_query(...); req.add_simple_query(...);
\* response res{...};
InitReuse ==
    /\ NoConnection
    /\ types_ = <<"query", "query">>
    /\ buffer_ = serialize("query", serialize("query", <<>>, FALSE).to, FALSE).to
    /\ autosync_ = TRUE
    /\ calls = <<(<<"add_simple_query", TRUE, 0>>), (<<"add_simple_query", TRUE, 0>>)>>
    /\ pc = "constructed"
    /\ rs_arg = 0
    /\ rs_res = NoSetup
    /\ handlers \in HandlerLists(MaxReuseHandlers)
    /\ offsets_ = [i \in 1..Len(handlers) |-> 0]
    /\ current_ = 0
    /\ setup_arg = 0
    /\ setup_res = setup_ok(0)
    /\ setup_calls = <<>>
    /\ last_offset = 0
    /\ delivered = <<>>
    /\ exec_result = NoExec
    /\ asserts_off = FALSE
    /\ NoCall

NextReuse ==
    \/ \E oobs \in [1..Len(handlers) -> OobReads] : response_setup(0, oobs)
    \/ \E msg \in RoutedMessages, offset \in RoutedOffsets, abort \in BOOLEAN :
          routed(handlers) < MaxReuseMsgs /\ on_message(msg, offset, indeterminate, abort)
    \/ \E ec \in {no_error} \cup TransportErrors : exec_done(ec)
    \/ \E oobs \in [1..Len(handlers) -> OobReads] : setup_again(oobs)

SpecReuse == InitReuse /\ [][NextReuse]_vars

\* this step is the first on_message call after a setup, with an offset
\* inside handler 0's region
FirstMessageForHandler0 ==
    /\ pc = "routing"
    /\ delivered = <<>>
    /\ delivered' # <<>>
    /\ last_offset' < offsets_[1]

\* C39: routing always starts at handler 0 after a setup: when a response
\* object that has already routed the messages of one exec is set up again,
\* the first message of the new exec with an offset inside handler 0's region
\* is dispatched to handler 0.
C39_RoutingRestartsAtHandler0 ==
    [][FirstMessageForHandler0
         => /\ current_' = 0
            /\ pc' # "aborted" => handlers'[1].msgs # handlers[1].msgs]_vars

------------------------------------------------------------------------------
(* connection.hpp: physical_connect_op, the name resolution followed by the *)
(* TCP connect, under SpecPhysical                                          *)

\* physical connects started on one connection_impl
MaxPhysicalOps == 2

\* what async_resolve and boost::asio::async_connect complete with
ResolveErrors == {"host_not_found", "operation_aborted"}
ConnectErrors == {"connection_refused", "operation_aborted"}

\* the results_type of a resolve that completed with ec: empty on failure
resolve_results(ec) == IF ec = no_error THEN <<"endpoint">> ELSE <<>>

\* the outcomes of boost::asio::async_connect over the range results: an
\* empty range completes with not_found
connect_outcomes(results) ==
    IF results = <<>> THEN {"not_found", "operation_aborted"}
    ELSE {no_error} \cup ConnectErrors

\* a physical_connect_op inside its composed operation: what it waits for,
\* the outcome of its resolve, the TCP connects it started, the calls of the
\* completion handler in order, and whether self.complete was called on a
\* composed operation whose handler a former complete had consumed
physical_connect_op(waits_for, results, resolve_ec, connects, completions, fault) ==
    [kind |-> "physical_connect_op", waits_for |-> waits_for, results |-> results,
     resolve_ec |-> resolve_ec, connects |-> connects, completions |-> completions,
     fault |-> fault]

\* async_physical_connect(conn, params, token): async_compose calls
\* operator()(self), which starts impl.resolv.async_resolve
async_physical_connect ==
    /\ pc = "physical"
    /\ Len(ops) < MaxPhysicalOps
    /\ ops' = Append(ops, physical_connect_op("resolve", <<>>, no_error, 0, <<>>, FALSE))
    /\ UNCHANGED <<impl, request_vars, pc, scan_vars, call_vars, response_vars>>

\* operator()(self, ec, results): if (ec) self.complete(ec); and then, in
\* either case, boost::asio::async_connect(impl.sock, results, std::move(self))
resolve_completed(i, ec) ==
    /\ pc = "physical"
    /\ i \in 1..Len(ops)
    /\ ops[i].waits_for = "resolve"
    /\ ops' = [ops EXCEPT ![i] =
                 physical_connect_op("connect", resolve_results(ec), ec, 1,
                                     IF ec # no_error THEN <<ec>> ELSE <<>>, FALSE)]
    /\ impl' = [impl EXCEPT !.sock.outstanding = @ \cup {i}]
    /\ UNCHANGED <<request_vars, pc, scan_vars, call_vars, response_vars>>

\* operator()(self, ec, endpoint): self.complete(ec). consumed: the handler
\* was moved out by the complete of the resolve step and calling it again is
\* undefined; otherwise the handler is one that can be called again
connect_completed(i, ec, consumed) ==
    /\ pc = "physical"
    /\ i \in 1..Len(ops)
    /\ ops[i].waits_for = "connect"
    /\ ec \in connect_outcomes(ops[i].results)
    /\ consumed => ops[i].completions # <<>>
    /\ ops' = [ops EXCEPT ![i] =
                 physical_connect_op("none", @.results, @.resolve_ec, @.connects,
                                     IF consumed THEN @.completions
                                     ELSE Append(@.completions, ec),
                                     consumed)]
    /\ impl' = [impl EXCEPT !.sock.outstanding = @ \ {i},
                            !.sock.is_open = @ \/ ec = no_error]
    /\ UNCHANGED <<request_vars, pc, scan_vars, call_vars, response_vars>>

\* connection_impl impl{ex};
InitPhysical ==
    /\ NoConnection
    /\ types_ = <<>>
    /\ buffer_ = <<>>
    /\ autosync_ = TRUE
    /\ calls = <<>>
    /\ pc = "physical"
    /\ rs_arg = 0
    /\ rs_res = NoSetup
    /\ NoResponse
    /\ NoCall

NextPhysical ==
    \/ async_physical_connect
    \/ \E i \in 1..MaxPhysicalOps, ec \in {no_error} \cup ResolveErrors : resolve_completed(i, ec)
    \/ \E i \in 1..MaxPhysicalOps, ec \in {no_error, "not_found"} \cup ConnectErrors,
          consumed \in BOOLEAN : connect_completed(i, ec, consumed)

SpecPhysical == InitPhysical /\ [][NextPhysical]_vars

\* C40: the physical connect operation invokes its completion handler exactly
\* once in every execution: when name resolution fails it completes with the
\* resolver's error and starts no TCP connect; otherwise it completes once
\* with the result of the TCP connect. Stated for every operation whose
\* resolve has completed: the handler was called at most once and never on a
\* consumed handler; after a failed resolve it was called with the resolver's
\* error and no connect was started; after the connect of a good resolve it
\* was called once.
C40_PhysicalConnectCompletesOnce ==
    \A i \in 1..Len(ops) :
        ops[i].waits_for # "resolve" =>
            /\ Len(ops[i].completions) <= 1
            /\ ~ops[i].fault
            /\ ops[i].resolve_ec # no_error =>
                  (ops[i].completions = <<ops[i].resolve_ec>> /\ ops[i].connects = 0)
            /\ (ops[i].resolve_ec = no_error /\ ops[i].waits_for = "none") =>
                  Len(ops[i].completions) = 1

==============================================================================
